---- MODULE Spec2Model ----
(***************************************************************************)
(* A model of the transcription job pipeline of WhisperDesktop             *)
(* (src-tauri/src/lib.rs): the job registry, the start_transcribe and      *)
(* get_transcribe_status commands, the background task run_transcription   *)
(* with its subprocesses and stream-draining tasks, and the pure helpers   *)
(* (key codec, time utility, merge and rendering) the pipeline calls.      *)
(*                                                                         *)
(* Text is modelled as a sequence of characters (one-character strings),   *)
(* so that splitting, trimming and comparing are computed, not assumed.    *)
(* The three kanji of the localized time notation are written "ji" (hour), *)
(* "fun" (minute) and "byo" (second), and the full-width colon "fwcolon":  *)
(* each stands for one character.                                          *)
(***************************************************************************)
EXTENDS Integers, Sequences, FiniteSets, TLC

(***************************************************************************)
(* Characters and strings                                                  *)
(***************************************************************************)

\* The characters used by the model, in the order of their UTF-8 encoding,
\* which is the order str::cmp compares by.
Alphabet ==
    << " ", "+", "-", ".", "/", "0", "1", "2", "3", "4", "5", "6", "7", "8", "9",
       ":", "_", "a", "b", "c", "d", "g", "h", "i", "l", "m", "o", "r", "x",
       "fun", "ji", "byo", "fwcolon" >>

CharRank(c) == CHOOSE i \in 1..Len(Alphabet) : Alphabet[i] = c

DigitChars == << "0", "1", "2", "3", "4", "5", "6", "7", "8", "9" >>

IsDigit(c) == \E i \in 1..10 : DigitChars[i] = c

DigitVal(c) == (CHOOSE i \in 1..10 : DigitChars[i] = c) - 1

IsWhitespace(c) == c = " "

\* Option values: None, or Some(v).
None == [some |-> FALSE]

Some(v) == [some |-> TRUE, val |-> v]

\* str::cmp: -1 (Less), 0 (Equal), 1 (Greater), byte-wise lexicographic.
RECURSIVE StrCmp(_, _)
StrCmp(a, b) ==
    IF a = <<>> /\ b = <<>> THEN 0
    ELSE IF a = <<>> THEN -1
    ELSE IF b = <<>> THEN 1
    ELSE IF CharRank(Head(a)) < CharRank(Head(b)) THEN -1
    ELSE IF CharRank(Head(a)) > CharRank(Head(b)) THEN 1
    ELSE StrCmp(Tail(a), Tail(b))

RECURSIVE TrimStart(_)
TrimStart(s) ==
    IF s # <<>> /\ IsWhitespace(Head(s)) THEN TrimStart(Tail(s)) ELSE s

RECURSIVE TrimEnd(_)
TrimEnd(s) ==
    IF s # <<>> /\ IsWhitespace(s[Len(s)])
    THEN TrimEnd(SubSeq(s, 1, Len(s) - 1))
    ELSE s

\* str::trim
Trim(s) == TrimEnd(TrimStart(s))

\* The position of the first occurrence of character c in s, 0 if none.
FindChar(s, c) ==
    IF \E i \in 1..Len(s) : s[i] = c
    THEN CHOOSE i \in 1..Len(s) : s[i] = c /\ \A k \in 1..(i - 1) : s[k] # c
    ELSE 0

\* str::split(c): the pieces between the occurrences of c (always >= 1 piece).
RECURSIVE Split(_, _)
Split(s, c) ==
    LET i == FindChar(s, c)
    IN  IF i = 0 THEN << s >>
        ELSE << SubSeq(s, 1, i - 1) >> \o Split(SubSeq(s, i + 1, Len(s)), c)

\* str::split_once(c): None, or Some(<<before, after>>) around the first c.
SplitOnce(s, c) ==
    LET i == FindChar(s, c)
    IN  IF i = 0 THEN None
        ELSE Some(<< SubSeq(s, 1, i - 1), SubSeq(s, i + 1, Len(s)) >>)

\* str::strip_suffix(suf): None, or Some(the string without the suffix).
StripSuffix(s, suf) ==
    IF Len(s) >= Len(suf) /\ SubSeq(s, Len(s) - Len(suf) + 1, Len(s)) = suf
    THEN Some(SubSeq(s, 1, Len(s) - Len(suf)))
    ELSE None

\* The strings of a sequence joined with the separator between them.
RECURSIVE Join(_, _)
Join(parts, sep) ==
    IF parts = <<>> THEN <<>>
    ELSE IF Len(parts) = 1 THEN parts[1]
    ELSE parts[1] \o sep \o Join(Tail(parts), sep)

RECURSIVE DigitsValue(_, _)
DigitsValue(s, acc) ==
    IF s = <<>> THEN acc ELSE DigitsValue(Tail(s), acc * 10 + DigitVal(Head(s)))

RECURSIVE StripZeros(_)
StripZeros(s) == IF s # <<>> /\ Head(s) = "0" THEN StripZeros(Tail(s)) ELSE s

\* <u32 as FromStr>::from_str: an optional '+', then one or more digits.  A
\* number of ten or more significant digits is taken as the overflow error;
\* the values of ten digits that fit a u32 are out of range for every caller.
ParseU32(s) ==
    LET body == IF s # <<>> /\ Head(s) = "+" THEN Tail(s) ELSE s
    IN  IF body # <<>> /\ (\A i \in 1..Len(body) : IsDigit(body[i]))
           /\ Len(StripZeros(body)) < 10
        THEN Some(DigitsValue(StripZeros(body), 0))
        ELSE None

(***************************************************************************)
(* Time Utility                                                            *)
(***************************************************************************)

\* A NaiveTime: seconds since midnight, and whether it is the leap second
\* that chrono represents as second 59 with a fraction of one whole second.
NaiveTime(secs, leap) == [secs |-> secs, leap |-> leap]

\* NaiveTime::from_hms_opt
FromHmsOpt(h, m, s) ==
    IF h >= 24 \/ m >= 60 \/ s >= 60 THEN None
    ELSE Some(NaiveTime(h * 3600 + m * 60 + s, 0))

parse_japanese_time(value) ==
    LET trimmed == Trim(value)
        p1 == SplitOnce(trimmed, "ji")
    IN  IF ~p1.some THEN None
        ELSE LET p2 == SplitOnce(p1.val[2], "fun")
             IN  IF ~p2.some THEN None
                 ELSE LET p3 == StripSuffix(p2.val[2], << "byo" >>)
                      IN  IF ~p3.some THEN None
                          ELSE LET hour == ParseU32(p1.val[1])
                                   minute == ParseU32(p2.val[1])
                                   second == ParseU32(p3.val)
                               IN  IF ~hour.some \/ ~minute.some \/ ~second.some
                                   THEN None
                                   ELSE FromHmsOpt(hour.val, minute.val, second.val)

parse_hyphen_time(value) ==
    LET parts == Split(value, "-")
    IN  IF Len(parts) # 3 THEN None
        ELSE LET hour == ParseU32(parts[1])
                 minute == ParseU32(parts[2])
                 second == ParseU32(parts[3])
             IN  IF ~hour.some \/ ~minute.some \/ ~second.some THEN None
                 ELSE FromHmsOpt(hour.val, minute.val, second.val)

\* chrono's scan of one numeric item of width 2: leading whitespace is
\* skipped, then one or two digits are taken.  None, or Some(<<value, rest>>).
ScanNumber2(s) ==
    LET t == TrimStart(s)
    IN  IF t = <<>> \/ ~IsDigit(Head(t)) THEN None
        ELSE IF Len(t) >= 2 /\ IsDigit(t[2])
             THEN Some(<< DigitVal(t[1]) * 10 + DigitVal(t[2]), SubSeq(t, 3, Len(t)) >>)
             ELSE Some(<< DigitVal(t[1]), Tail(t) >>)

\* NaiveTime::parse_from_str(value, "%H-%M-%S"): hour 0..23, minute 0..59,
\* second 0..60 where 60 is read as the leap second after second 59.
ChronoParseHMS(value) ==
    LET h == ScanNumber2(value)
    IN  IF ~h.some \/ h.val[2] = <<>> \/ Head(h.val[2]) # "-" THEN None
        ELSE LET m == ScanNumber2(Tail(h.val[2]))
             IN  IF ~m.some \/ m.val[2] = <<>> \/ Head(m.val[2]) # "-" THEN None
                 ELSE LET s == ScanNumber2(Tail(m.val[2]))
                      IN  IF ~s.some \/ s.val[2] # <<>> THEN None
                          ELSE IF h.val[1] >= 24 \/ m.val[1] >= 60 \/ s.val[1] > 60
                               THEN None
                          ELSE IF s.val[1] = 60
                               THEN Some(NaiveTime(h.val[1] * 3600 + m.val[1] * 60 + 59, 1))
                               ELSE Some(NaiveTime(h.val[1] * 3600 + m.val[1] * 60 + s.val[1], 0))

HasKanji(value) ==
    \E i \in 1..Len(value) : value[i] \in { "ji", "fun", "byo" }

parse_time_any(value) ==
    LET jp == IF HasKanji(value) THEN parse_japanese_time(value) ELSE None
    IN  IF jp.some THEN jp
        ELSE LET ch == ChronoParseHMS(value)
             IN  IF ch.some THEN ch ELSE parse_hyphen_time(value)

\* Ord for NaiveTime: by seconds, then by fraction.
TimeCmp(a, b) ==
    IF a.secs < b.secs THEN -1
    ELSE IF a.secs > b.secs THEN 1
    ELSE IF a.leap < b.leap THEN -1
    ELSE IF a.leap > b.leap THEN 1
    ELSE 0

\* A variant that compares the raw strings unless both parse.
CompareRawUnlessBothParse(a, b) ==
    LET pa == parse_time_any(a)
        pb == parse_time_any(b)
    IN  IF pa.some /\ pb.some THEN TimeCmp(pa.val, pb.val) ELSE StrCmp(a, b)

compare_time_string(a, b) ==
    LET pa == parse_time_any(a)
        pb == parse_time_any(b)
    IN  IF pa.some /\ pb.some THEN TimeCmp(pa.val, pb.val)
        ELSE IF pa.some THEN -1
        ELSE IF pb.some THEN 1
        ELSE StrCmp(a, b)

\* Timelike::num_seconds_from_midnight
num_seconds_from_midnight(t) == t.secs

RECURSIVE NatToStr(_)
NatToStr(n) ==
    IF n < 10 THEN << DigitChars[n + 1] >>
    ELSE NatToStr(n \div 10) \o << DigitChars[(n % 10) + 1] >>

format_time_japanese(value) ==
    LET time == parse_time_any(value)
    IN  IF ~time.some THEN None
        ELSE Some(NatToStr(time.val.secs \div 3600) \o << "ji" >>
                  \o NatToStr((time.val.secs % 3600) \div 60) \o << "fun" >>
                  \o NatToStr(time.val.secs % 60) \o << "byo" >>)

sanitize_time(value) == value

(***************************************************************************)
(* Key Codec                                                               *)
(***************************************************************************)

OggSuffix == << ".", "o", "g", "g" >>

\* A variant that does not look behind the fifth part.
ParseKeyOfFiveOrMore(key) ==
    LET parts == Split(key, "/")
    IN  IF Len(parts) < 5 THEN None
        ELSE LET stripped == StripSuffix(parts[5], OggSuffix)
                 file == IF stripped.some THEN stripped.val ELSE parts[5]
                 cut == SplitOnce(file, "_")
                 track_time == IF cut.some THEN cut.val[1] ELSE file
             IN  Some([date |-> parts[1], room_id |-> parts[2],
                       meeting_time |-> parts[3], speaker |-> parts[4],
                       track_time |-> track_time])

\* None, or Some of the record (date, room_id, meeting_time, speaker, track_time).
parse_key(key) ==
    LET parts == Split(key, "/")
    IN  IF Len(parts) # 5 THEN None
        ELSE LET stripped == StripSuffix(parts[5], OggSuffix)
                 file == IF stripped.some THEN stripped.val ELSE parts[5]
                 cut == SplitOnce(file, "_")
                 track_time == IF cut.some THEN cut.val[1] ELSE file
             IN  Some([date |-> parts[1], room_id |-> parts[2],
                       meeting_time |-> parts[3], speaker |-> parts[4],
                       track_time |-> track_time])

(***************************************************************************)
(* Merge and rendering                                                     *)
(***************************************************************************)

\* Vec::sort_by is a stable sort; insertion of each element behind the
\* elements that do not compare greater gives the same sequence.
RECURSIVE InsertTrack(_, _)
InsertTrack(sorted, t) ==
    IF sorted = <<>> THEN << t >>
    ELSE IF compare_time_string(Head(sorted).track_time, t.track_time) > 0
         THEN << t >> \o sorted
         ELSE << Head(sorted) >> \o InsertTrack(Tail(sorted), t)

RECURSIVE SortTracksFrom(_, _)
SortTracksFrom(sorted, rest) ==
    IF rest = <<>> THEN sorted
    ELSE SortTracksFrom(InsertTrack(sorted, Head(rest)), Tail(rest))

\* A variant that leaves the tracks in the order of the listing.
KeepListingOrder(ts) == ts

\* tracks.sort_by(|a, b| compare_time_string(&a.track_time, &b.track_time))
SortTracks(ts) == SortTracksFrom(<<>>, ts)

\* A variant of the insertion that places a segment before the segments of
\* the same start, as an unstable sort may.
RECURSIVE InsertSegmentBeforeEqual(_, _)
InsertSegmentBeforeEqual(sorted, s) ==
    IF sorted = <<>> THEN << s >>
    ELSE IF Head(sorted).start >= s.start
         THEN << s >> \o sorted
         ELSE << Head(sorted) >> \o InsertSegmentBeforeEqual(Tail(sorted), s)

RECURSIVE InsertSegment(_, _)
InsertSegment(sorted, s) ==
    IF sorted = <<>> THEN << s >>
    ELSE IF Head(sorted).start > s.start
         THEN << s >> \o sorted
         ELSE << Head(sorted) >> \o InsertSegment(Tail(sorted), s)

RECURSIVE SortSegmentsFrom(_, _)
SortSegmentsFrom(sorted, rest) ==
    IF rest = <<>> THEN sorted
    ELSE SortSegmentsFrom(InsertSegment(sorted, Head(rest)), Tail(rest))

\* sort_by(|a, b| a.start.partial_cmp(&b.start).unwrap_or(Equal)); the start
\* times of the model are finite, so partial_cmp is a total order.
SortSegments(segs) == SortSegmentsFrom(<<>>, segs)

\* A variant that keeps the segments of blank text.
RECURSIVE TrackSegmentsKeepingBlank(_, _, _)
TrackSegmentsKeepingBlank(segments, track_start_seconds, speaker) ==
    IF segments = <<>> THEN <<>>
    ELSE << [start |-> track_start_seconds + Head(segments).start,
             speaker |-> speaker,
             text |-> Trim(Head(segments).text)] >>
         \o TrackSegmentsKeepingBlank(Tail(segments), track_start_seconds, speaker)

\* The TranscriptionSegments of one track: the recognized segments whose
\* trimmed text is not empty, re-anchored at the track's start.
RECURSIVE TrackSegments(_, _, _)
TrackSegments(segments, track_start_seconds, speaker) ==
    IF segments = <<>> THEN <<>>
    ELSE LET segment == Head(segments)
             cleaned == Trim(segment.text)
             rest == TrackSegments(Tail(segments), track_start_seconds, speaker)
         IN  IF cleaned = <<>> THEN rest
             ELSE << [start |-> track_start_seconds + segment.start,
                      speaker |-> speaker,
                      text |-> cleaned] >> \o rest

\* parse_time_any(..).map(num_seconds_from_midnight).unwrap_or(0.0).  A
\* number of seconds that the code holds as f64 (a start, an offset) is
\* held in thousandths of a second.
TrackStartSeconds(track_time) ==
    LET t == parse_time_any(track_time)
    IN  IF t.some THEN num_seconds_from_midnight(t.val) * 1000 ELSE 0

TwoDigits(n) == IF n < 10 THEN << "0" >> \o NatToStr(n) ELSE NatToStr(n)

\* A variant that cuts the fraction of the second off.
FormatSecondsTruncating(value) ==
    LET total == IF value <= 0 THEN 0 ELSE value \div 1000
    IN  TwoDigits(total \div 3600) \o << ":" >> \o TwoDigits((total % 3600) \div 60)
            \o << ":" >> \o TwoDigits(total % 60)

\* format_seconds of a value in thousandths: round() goes to the nearest
\* whole second, a half away from zero; max(0.0) lifts what is negative.
format_seconds(value) ==
    LET total == IF value <= 0 THEN 0 ELSE (value + 500) \div 1000
    IN  TwoDigits(total \div 3600) \o << ":" >> \o TwoDigits((total % 3600) \div 60)
            \o << ":" >> \o TwoDigits(total % 60)

\* The lines of the rendered text, each without its closing newline.
format_segments(segments, include_timestamps, include_speaker) ==
    [ i \in 1..Len(segments) |->
        LET segment == segments[i]
        IN  IF include_timestamps
            THEN IF include_speaker
                 THEN format_seconds(segment.start) \o << " " >> \o segment.speaker
                          \o << "fwcolon" >> \o segment.text
                 ELSE format_seconds(segment.start) \o << " " >> \o segment.text
            ELSE IF include_speaker
                 THEN segment.speaker \o << "fwcolon" >> \o segment.text
                 ELSE segment.text ]

(***************************************************************************)
(* The object store                                                        *)
(***************************************************************************)

Slash == << "/" >>

T100000 == << "1", "0", "-", "0", "0", "-", "0", "0" >>

T100003 == << "1", "0", "-", "0", "0", "-", "0", "3" >>

T110000 == << "1", "1", "-", "0", "0", "-", "0", "0" >>

TJp0905 == << "9", "ji", "0", "fun", "5", "byo" >>

TBad == << "b", "a", "d" >>

\* An object key in the wire format date/roomId/meetingTime/speaker/file.
MkKey(date, room, meeting_time, speaker, file) ==
    Join(<< date, room, meeting_time, speaker, file >>, Slash)

MkFile(track_time, suffix) == track_time \o << "_" >> \o suffix \o OggSuffix

MkMeetingId(date, room, meeting_time) ==
    Join(<< date, room, meeting_time >>, Slash)

\* The meetings a caller asks for: one with two tracks listed against their
\* time order and an object of another arity, one with an unparseable track
\* time, one with a single track, one without objects, and one of a wav
\* object.
MeetingTwo == MkMeetingId(<< "d" >>, << "r" >>, T100000)

MeetingBad == MkMeetingId(<< "d" >>, << "r" >>, TBad)

MeetingSolo == MkMeetingId(<< "d" >>, << "r" >>, TJp0905)

MeetingNone == MkMeetingId(<< "d" >>, << "r" >>, T110000)

\* A meeting whose one track is an object in the wav format.
MeetingWav == MkMeetingId(<< "d" >>, << "r" >>, T100003)

\* The objects of the bucket, in the order the store lists them.
Bucket ==
    << MkKey(<< "d" >>, << "r" >>, T100000, << "a" >>, MkFile(T100003, << "x" >>)),
       MkKey(<< "d" >>, << "r" >>, T100000, << "b" >>, MkFile(T100000, << "x" >>)),
       Join(<< << "d" >>, << "r" >>, T100000, << "b" >>, << "x" >>, T100000 \o OggSuffix >>, Slash),
       MkKey(<< "d" >>, << "r" >>, T100003, << "a" >>, T100003 \o << ".", "w", "a", "v" >>),
       MkKey(<< "d" >>, << "r" >>, TJp0905, << "a" >>, TJp0905 \o OggSuffix),
       MkKey(<< "d" >>, << "r" >>, TBad, << "a" >>, MkFile(TBad, << "x" >>)),
       MkKey(<< "d" >>, << "r" >>, TBad, << "b" >>, MkFile(TJp0905, << "x" >>)) >>

\* The number of keys the store returns per listing request.
PageSize == 2

StartsWith(s, prefix) ==
    Len(s) >= Len(prefix) /\ SubSeq(s, 1, Len(prefix)) = prefix

\* list_objects_v2 with a prefix and an optional continuation token: the keys
\* of one page, whether more follow, and the token that continues the listing.
ListObjectsV2(bucket, prefix, token) ==
    LET matching == SelectSeq(bucket, LAMBDA k : StartsWith(k, prefix))
        from == IF token.some THEN token.val ELSE 0
        upto == IF from + PageSize < Len(matching) THEN from + PageSize ELSE Len(matching)
    IN  [ contents |-> SubSeq(matching, from + 1, upto),
          is_truncated |-> upto < Len(matching),
          next_continuation_token |->
              IF upto < Len(matching) THEN Some(upto) ELSE None ]

(***************************************************************************)
(* Configuration                                                           *)
(***************************************************************************)

\* MinioConfig.
Minio(url, access_key, secret_key, bucket, region) ==
    [ url |-> url, access_key |-> access_key, secret_key |-> secret_key,
      bucket |-> bucket, region |-> region ]

\* MinioConfig::default(): every string is empty.
DefaultMinio == Minio(<< >>, << >>, << >>, << >>, << >>)

\* A configuration with all that s3_client asks for; the region is left out.
CompleteMinio == Minio(<< "u" >>, << "a" >>, << "s" >>, << "b" >>, << >>)

\* The configurations a caller saves: the complete one, the ones that lack
\* one field, and the one that lacks all.
MinioConfigs ==
    { CompleteMinio, DefaultMinio,
      [ CompleteMinio EXCEPT !.url = << >> ],
      [ CompleteMinio EXCEPT !.access_key = << >> ],
      [ CompleteMinio EXCEPT !.secret_key = << >> ],
      [ CompleteMinio EXCEPT !.bucket = << >> ] }

\* The file config.json: missing, blank, not the JSON of a configuration, or
\* the JSON of one.
ConfigFile(kind, minio) == [ kind |-> kind, minio |-> minio ]

ConfigFiles ==
    { ConfigFile(kind, DefaultMinio) : kind \in { "missing", "blank", "malformed" } }
    \cup { ConfigFile("json", minio) : minio \in MinioConfigs }

\* load_saved_config: the default configuration for a missing or a blank
\* file, the error of the parser for a malformed one.
load_saved_config(file) ==
    IF file.kind \in { "missing", "blank" }
    THEN [ ok |-> TRUE, config |-> DefaultMinio, error |-> "" ]
    ELSE IF file.kind = "malformed"
    THEN [ ok |-> FALSE, config |-> DefaultMinio, error |-> "invalid config file" ]
    ELSE [ ok |-> TRUE, config |-> file.minio, error |-> "" ]

\* A variant that does not ask for the bucket.
S3ClientWithoutBucket(minio) ==
    IF minio.url = << >> \/ minio.access_key = << >> \/ minio.secret_key = << >>
    THEN "MinIO config is incomplete"
    ELSE ""

\* s3_client: the error for a configuration that lacks the url, a key or the
\* bucket, "" when the client is built.
s3_client(minio) ==
    IF minio.url = << >> \/ minio.access_key = << >> \/ minio.secret_key = << >>
       \/ minio.bucket = << >>
    THEN "MinIO config is incomplete"
    ELSE ""

\* The first two lines of start_transcribe: the error of effective_config or
\* of s3_client, "" when both return Ok.
ConfigError(file) ==
    LET loaded == load_saved_config(file)
    IN  IF ~loaded.ok THEN loaded.error ELSE s3_client(loaded.config)

(***************************************************************************)
(* State                                                                   *)
(***************************************************************************)

VARIABLES
    jobs,       \* the registry: job id -> JobStatus
    task,       \* job id -> the locals of its background task
    procs,      \* job id -> the child processes it spawned and has not reaped
    files,      \* output path -> the lines written to that file
    hist,       \* job id -> the external operations the task has performed
    response,   \* the reply of the command that has just run
    call,       \* a call of a function by itself: its arguments and what it returns
    config      \* the configuration file on disk

vars == << jobs, task, procs, files, hist, response, call, config >>

\* The reply of a command: the id that start_transcribe returns, the status
\* that get_transcribe_status returns, or the error of either.
Response(op, arg, ok, id, status, error) ==
    [ op |-> op, arg |-> arg, ok |-> ok, id |-> id, status |-> status, error |-> error ]

NoResponse == Response("none", 0, TRUE, 0, None, "")

\* No function has been called by itself.
NoCall == [ fn |-> "none" ]

JobIds == DOMAIN jobs

\* Uuid::new_v4(): an identifier no earlier job has.
NewJobId == Cardinality(DOMAIN jobs) + 1

Extend(f, k, v) == [ i \in DOMAIN f \cup { k } |-> IF i = k THEN v ELSE f[i] ]

\* No job has been started and no command has run.
NoJobs ==
    /\ jobs = << >>
    /\ task = << >>
    /\ procs = << >>
    /\ files = << >>
    /\ hist = << >>
    /\ response = NoResponse

\* The configuration file is what an earlier run has left on disk.
Init ==
    /\ NoJobs
    /\ call = NoCall
    /\ config \in ConfigFiles

(***************************************************************************)
(* Job Registry                                                            *)
(***************************************************************************)

\* A variant that makes an entry for a job id the map does not have.
AppendLogInsertingJob(map, job_id, line) ==
    [ k \in DOMAIN map \cup { job_id } |->
        IF k # job_id THEN map[k]
        ELSE IF k \in DOMAIN map THEN [ map[k] EXCEPT !.log = Append(@, line) ]
        ELSE [ state |-> "running", completed |-> 0, total |-> 0,
               output_path |-> None, error |-> None, log |-> << line >> ] ]

\* append_log: nothing for an unknown job id, else the line and a newline
\* are pushed on the log; the log is kept as the sequence of its lines.
append_log(map, job_id, line) ==
    IF job_id \in DOMAIN map
    THEN [ map EXCEPT ![job_id].log = Append(@, line) ]
    ELSE map

\* A variant that looks the job up under a key the map does not have, and so
\* records nothing.
MarkFailedUnderMissingKey(map, job_id, msg) == map

\* A variant that records the failure on every entry of the map instead of the
\* entry of the job.
MarkFailedEveryJob(map, job_id, msg) ==
    [ k \in DOMAIN map |-> [ map[k] EXCEPT !.state = "failed", !.error = Some(msg) ] ]

\* The lock section of the spawned task of start_transcribe on Err.
MarkFailedIn(map, job_id, msg) ==
    IF job_id \in DOMAIN map
    THEN [ map EXCEPT ![job_id].state = "failed", ![job_id].error = Some(msg) ]
    ELSE map

\* A variant that forgets to set the output path.
MarkDoneWithoutPath(map, job_id, output_path) ==
    IF job_id \in DOMAIN map
    THEN [ map EXCEPT ![job_id].state = "done",
                      ![job_id].completed = map[job_id].total ]
    ELSE map

\* The lock section that closes run_transcription.
MarkDoneIn(map, job_id, output_path) ==
    IF job_id \in DOMAIN map
    THEN [ map EXCEPT ![job_id].state = "done",
                      ![job_id].completed = map[job_id].total,
                      ![job_id].output_path = Some(output_path) ]
    ELSE map

\* The lock section after track discovery.
SetTotalIn(map, job_id, n) ==
    IF job_id \in DOMAIN map
    THEN [ map EXCEPT ![job_id].total = n, ![job_id].completed = 0 ]
    ELSE map

\* A variant that counts the track that comes next as completed.
CompletedOffByOne(map, job_id, n) ==
    IF job_id \in DOMAIN map
    THEN [ map EXCEPT ![job_id].completed = n + 1 ]
    ELSE map

\* The lock section that ends the processing of one track.
SetCompletedIn(map, job_id, n) ==
    IF job_id \in DOMAIN map
    THEN [ map EXCEPT ![job_id].completed = n ]
    ELSE map

\* A variant in which the entry waits for its task before it runs.
NewJobStatusPending ==
    [ state |-> "pending", completed |-> 0, total |-> 0,
      output_path |-> None, error |-> None, log |-> << >> ]

\* The JobStatus that start_transcribe inserts.
NewJobStatus ==
    [ state |-> "running", completed |-> 0, total |-> 0,
      output_path |-> None, error |-> None, log |-> << >> ]

(***************************************************************************)
(* Commands                                                                *)
(***************************************************************************)

NewTask(meeting_id, include_timestamps, include_speaker) ==
    [ pc |-> "start", meeting_id |-> meeting_id,
      include_timestamps |-> include_timestamps,
      include_speaker |-> include_speaker,
      tracks |-> << >>, continuation |-> None, index |-> 0,
      all_segments |-> << >>, output_path |-> << >>, status |-> 0,
      err |-> "" ]

\* start_transcribe with a configuration file that cannot be loaded or that
\* s3_client refuses: the error is returned before a job id is made.
StartTranscribeConfigError(In) ==
    /\ ConfigError(config) # ""
    /\ \E meeting_id \in In.meetings :
          response' = Response("start_transcribe", 0, FALSE, 0, None, ConfigError(config))
    /\ UNCHANGED << jobs, task, procs, files, hist, call, config >>

\* start_transcribe: the entry is inserted, the task is spawned, the id is
\* returned.
StartTranscribe(In) ==
    /\ ConfigError(config) = ""
    /\ Cardinality(JobIds) < In.maxJobs
    /\ \E meeting_id \in In.meetings, flags \in In.flags :
          LET job_id == NewJobId
          IN  /\ jobs' = Extend(jobs, job_id, NewJobStatus)
              /\ task' = Extend(task, job_id, NewTask(meeting_id, flags[1], flags[2]))
              /\ procs' = Extend(procs, job_id, { })
              /\ hist' = Extend(hist, job_id, << >>)
              /\ response' = Response("start_transcribe", 0, TRUE, job_id, None, "")
    /\ UNCHANGED << files, call, config >>

\* set_config: the configuration is written over the file; a write that fails
\* leaves the old file, an empty one or a part of the new one.
SetConfig(In) ==
    /\ \E minio \in MinioConfigs, ok \in In.oks :
          IF ok
          THEN /\ config' = ConfigFile("json", minio)
               /\ response' = Response("set_config", 0, TRUE, 0, None, "")
          ELSE /\ config' \in { config, ConfigFile("blank", DefaultMinio),
                                ConfigFile("malformed", DefaultMinio) }
               /\ response' = Response("set_config", 0, FALSE, 0, None, "write error")
    /\ UNCHANGED << jobs, task, procs, files, hist, call >>

\* A variant that hands the error of a failed job to the caller as the error
\* of the call.
GetStatusThrowingFailure(map, job_id) ==
    IF job_id \in DOMAIN map /\ map[job_id].state # "failed"
    THEN [ ok |-> TRUE, status |-> Some(map[job_id]), error |-> "" ]
    ELSE [ ok |-> FALSE, status |-> None, error |-> "Job not found" ]

\* get_transcribe_status: a clone of the entry, or the "Job not found" error.
get_transcribe_status(map, job_id) ==
    IF job_id \in DOMAIN map
    THEN [ ok |-> TRUE, status |-> Some(map[job_id]), error |-> "" ]
    ELSE [ ok |-> FALSE, status |-> None, error |-> "Job not found" ]

GetTranscribeStatus(In) ==
    /\ \E job_id \in 1..(In.maxJobs + 1) :
          LET r == get_transcribe_status(jobs, job_id)
          IN  response' = Response("get_transcribe_status", job_id, r.ok, 0,
                                   r.status, r.error)
    /\ UNCHANGED << jobs, task, procs, files, hist, call, config >>

(***************************************************************************)
(* run_transcription                                                       *)
(***************************************************************************)

Failed(t, msg) == [ t EXCEPT !.pc = "err", !.err = msg ]

Event(op, track, data) == [ op |-> op, track |-> track, data |-> data ]

Record(j, e) == hist' = [ hist EXCEPT ![j] = Append(@, e) ]

\* A variant that does not resolve ffmpeg before the listing.
ResourceErrorWithoutFfmpeg(binary_exists, model_exists, ffmpeg_found) ==
    IF ~binary_exists THEN "Whisper binary not found"
    ELSE IF ~model_exists THEN "Whisper model not found"
    ELSE ""

\* ensure_whisper_resources and resolve_ffmpeg_path: the binary, then the
\* model, then ffmpeg; the message of the first that is missing, "" if none.
ResourceError(binary_exists, model_exists, ffmpeg_found) ==
    IF ~binary_exists THEN "Whisper binary not found"
    ELSE IF ~model_exists THEN "Whisper model not found"
    ELSE IF ~ffmpeg_found THEN "ffmpeg not found"
    ELSE ""

\* The first step of run_transcription: the local resources are resolved.
CheckResources(j, In) ==
    /\ j \in JobIds
    /\ task[j].pc = "start"
    /\ \E binary_exists \in In.binary, model_exists \in In.model, ffmpeg_found \in In.ffmpeg :
          LET msg == ResourceError(binary_exists, model_exists, ffmpeg_found)
          IN  /\ task' = [ task EXCEPT ![j] =
                     IF msg # "" THEN Failed(@, msg) ELSE [ @ EXCEPT !.pc = "list" ] ]
              /\ Record(j, Event("resources", 0,
                     << binary_exists, model_exists, ffmpeg_found >>))
    /\ UNCHANGED << call, config >>
    /\ response' = NoResponse
    /\ UNCHANGED << jobs, procs, files >>

\* A variant that makes a track of every object of the page.
TrackEntriesOfAllObjects(keys) ==
    [ i \in 1..Len(keys) |->
        [ key |-> keys[i],
          speaker |-> IF parse_key(keys[i]).some THEN parse_key(keys[i]).val.speaker ELSE << >>,
          track_time |-> IF parse_key(keys[i]).some
                         THEN sanitize_time(parse_key(keys[i]).val.track_time) ELSE << >> ] ]

\* The tracks of the objects of one page: one for each key that parse_key
\* takes apart.
RECURSIVE TrackEntries(_)
TrackEntries(keys) ==
    IF keys = <<>> THEN <<>>
    ELSE LET parsed == parse_key(Head(keys))
         IN  IF parsed.some
             THEN << [ key |-> Head(keys), speaker |-> parsed.val.speaker,
                       track_time |-> sanitize_time(parsed.val.track_time) ] >>
                      \o TrackEntries(Tail(keys))
             ELSE TrackEntries(Tail(keys))

\* A variant that leaves the loop after the first page.
ListPageOnce(j, In) ==
    /\ j \in JobIds
    /\ task[j].pc = "list"
    /\ \E ok \in In.oks :
          LET prefix == task[j].meeting_id \o Slash
              resp == ListObjectsV2(Bucket, prefix, task[j].continuation)
          IN  task' = [ task EXCEPT ![j] =
                  IF ~ok THEN Failed(@, "store error")
                  ELSE [ @ EXCEPT !.tracks = @ \o TrackEntries(resp.contents),
                                  !.pc = "total" ] ]
    /\ Record(j, Event("list", 0, task[j].continuation))
    /\ UNCHANGED << call, config >>
    /\ response' = NoResponse
    /\ UNCHANGED << jobs, procs, files >>

\* One request of the listing loop, and what the loop does with the page.
ListPage(j, In) ==
    /\ j \in JobIds
    /\ task[j].pc = "list"
    /\ \E ok \in In.oks :
          LET prefix == task[j].meeting_id \o Slash
              resp == ListObjectsV2(Bucket, prefix, task[j].continuation)
          IN  task' = [ task EXCEPT ![j] =
                  IF ~ok THEN Failed(@, "store error")
                  ELSE [ @ EXCEPT
                      !.tracks = @ \o TrackEntries(resp.contents),
                      !.continuation =
                          IF resp.is_truncated THEN resp.next_continuation_token ELSE @,
                      !.pc = IF resp.is_truncated /\ resp.next_continuation_token.some
                             THEN "list" ELSE "total" ] ]
    /\ Record(j, Event("list", 0, task[j].continuation))
    /\ UNCHANGED << call, config >>
    /\ response' = NoResponse
    /\ UNCHANGED << jobs, procs, files >>

\* Path::with_extension("txt") on a file name.
WithExtensionTxt(name) ==
    LET dots == { i \in 2..Len(name) : name[i] = "." }
        stem == IF dots = { } THEN name
                ELSE SubSeq(name, 1, (CHOOSE i \in dots : \A k \in dots : k <= i) - 1)
    IN  stem \o << ".", "t", "x", "t" >>

\* The file name of the transcript, under the output root.
OutputPath(meeting_id) ==
    LET parts == Split(meeting_id, "/")
        time_only == parts[Len(parts)]
        formatted == format_time_japanese(time_only)
        output_file == IF formatted.some THEN formatted.val ELSE time_only
    IN  WithExtensionTxt(output_file)

\* The meetings of the store that a caller can name.
Meetings == { MeetingTwo, MeetingBad, MeetingSolo, MeetingNone, MeetingWav }

\* OutputPath, tabulated over the meetings.
OutputPaths == [ meeting_id \in Meetings |-> OutputPath(meeting_id) ]

\* After the listing loop: the sort, the lock section that sets total, the
\* check for an empty meeting and the output path.
DiscoverDone(j) ==
    /\ j \in JobIds
    /\ task[j].pc = "total"
    /\ LET sorted == SortTracks(task[j].tracks)
       IN  /\ jobs' = SetTotalIn(jobs, j, Len(sorted))
           /\ task' = [ task EXCEPT ![j] =
                  IF sorted = <<>>
                  THEN Failed([ @ EXCEPT !.tracks = sorted ], "No tracks found for meeting")
                  ELSE [ @ EXCEPT !.tracks = sorted,
                                  !.output_path = OutputPaths[task[j].meeting_id],
                                  !.pc = "mkdir" ] ]
    /\ UNCHANGED << call, config >>
    /\ response' = NoResponse
    /\ UNCHANGED << procs, files, hist >>

\* create_dir_all of the output directory and of the job's temporary one.
MakeDirs(j, In) ==
    /\ j \in JobIds
    /\ task[j].pc = "mkdir"
    /\ \E ok \in In.oks :
          task' = [ task EXCEPT ![j] =
              IF ok THEN [ @ EXCEPT !.pc = "loop", !.index = 0, !.all_segments = << >> ]
              ELSE Failed(@, "Failed to create output dir") ]
    /\ UNCHANGED << call, config >>
    /\ response' = NoResponse
    /\ UNCHANGED << jobs, procs, files, hist >>

(***************************************************************************)
(* The loop over the tracks                                                *)
(***************************************************************************)

TrackWord == << "T", "r", "a", "c", "k", " " >>

DownloadingWords ==
    << ":", " ", "d", "o", "w", "n", "l", "o", "a", "d", "i", "n", "g", " ", "a", "u", "d", "i", "o" >>

ConvertingWords ==
    << ":", " ", "c", "o", "n", "v", "e", "r", "t", "i", "n", "g", " ", "t", "o", " ", "w", "a", "v" >>

TranscribingWords == << ":", " ", "t", "r", "a", "n", "s", "c", "r", "i", "b", "i", "n", "g" >>

DoneLine == << "D", "o", "n", "e" >>

\* format!("Track {}/{}", index + 1, tracks.len())
ProgressLabel(index, n) == TrackWord \o NatToStr(index + 1) \o Slash \o NatToStr(n)

\* temp_root.join(format!("track_{index}.ogg")), without the directory.
LocalFile(index) == << "t", "r", "a", "c", "k", "_" >> \o NatToStr(index) \o OggSuffix

is_wav(path) ==
    LET parts == Split(path, ".")
        ext == parts[Len(parts)]
    IN  /\ Len(parts) > 1
        /\ Len(ext) = 3
        /\ ext[1] \in { "w", "W" }
        /\ ext[2] \in { "a", "A" }
        /\ ext[3] \in { "v", "V" }

\* A variant of the loop's bound that is off by one: the last track is left
\* out.
SkipsLastTrack(t) == t.index + 1 < Len(t.tracks)

\* Whether the loop over the tracks has another track to process.
HasNextTrack(t) == t.index < Len(t.tracks)

\* The head of an iteration: the "downloading" line of the next track.
LogDownloading(j) ==
    /\ j \in JobIds
    /\ task[j].pc = "loop"
    /\ HasNextTrack(task[j])
    /\ jobs' = append_log(jobs, j,
                  ProgressLabel(task[j].index, Len(task[j].tracks)) \o DownloadingWords)
    /\ task' = [ task EXCEPT ![j].pc = "download" ]
    /\ UNCHANGED << call, config >>
    /\ response' = NoResponse
    /\ UNCHANGED << procs, files, hist >>

\* download_object, and the choice of the recognizer's input.
Download(j, In) ==
    /\ j \in JobIds
    /\ task[j].pc = "download"
    /\ \E ok \in In.oks :
          task' = [ task EXCEPT ![j] =
              IF ~ok THEN Failed(@, "Failed to download")
              ELSE [ @ EXCEPT !.pc = IF is_wav(LocalFile(task[j].index))
                                     THEN "log_transcribing"
                                     ELSE "log_converting" ] ]
    /\ Record(j, Event("download", task[j].index, task[j].tracks[task[j].index + 1].key))
    /\ UNCHANGED << call, config >>
    /\ response' = NoResponse
    /\ UNCHANGED << jobs, procs, files >>

LogConverting(j) ==
    /\ j \in JobIds
    /\ task[j].pc = "log_converting"
    /\ jobs' = append_log(jobs, j,
                  ProgressLabel(task[j].index, Len(task[j].tracks)) \o ConvertingWords)
    /\ task' = [ task EXCEPT ![j].pc = "spawn_ffmpeg" ]
    /\ UNCHANGED << call, config >>
    /\ response' = NoResponse
    /\ UNCHANGED << procs, files, hist >>

\* A child process: the lines of each stream that nobody has read yet (in the
\* pipe, or still to be written), whether it has exited and with which code.
Child(kind, track, out, err) ==
    [ kind |-> kind, track |-> track, out |-> out, err |-> err,
      exited |-> FALSE, code |-> 0 ]

\* The lines a pipe holds before the child that writes to it blocks.
PipeCapacity == 1

\* The streams of a child that a spawned task reads: both of the recognizer,
\* the standard error of ffmpeg.  The standard output of ffmpeg is piped and
\* stays in the Child value, which nobody reads.
HasDrainTask(kind, stream) == kind = "whisper" \/ stream = "stderr"

\* A child can write the rest of its output and exit when what is unread of
\* each stream fits in the pipe.
CanExit(p) == Len(p.out) <= PipeCapacity /\ Len(p.err) <= PipeCapacity

\* The child the task is waiting for.
Current(j, kind) ==
    { p \in procs[j] : p.kind = kind /\ p.track = task[j].index }

\* convert_to_wav up to the spawn of ffmpeg and of the task that drains its
\* standard error.
SpawnFfmpeg(j, In) ==
    /\ j \in JobIds
    /\ task[j].pc = "spawn_ffmpeg"
    /\ \E ok \in In.oks, out \in In.ffmpegOut, err \in In.ffmpegErr :
          IF ok
          THEN /\ procs' = [ procs EXCEPT ![j] =
                      @ \cup { Child("ffmpeg", task[j].index, out, err) } ]
               /\ task' = [ task EXCEPT ![j].pc = "wait_ffmpeg" ]
               /\ Record(j, Event("spawn_ffmpeg", task[j].index, << >>))
          ELSE /\ task' = [ task EXCEPT ![j] = Failed(@, "Failed to execute ffmpeg") ]
               /\ UNCHANGED << procs, hist >>
    /\ UNCHANGED << call, config >>
    /\ response' = NoResponse
    /\ UNCHANGED << jobs, files >>

LogTranscribing(j) ==
    /\ j \in JobIds
    /\ task[j].pc = "log_transcribing"
    /\ jobs' = append_log(jobs, j,
                  ProgressLabel(task[j].index, Len(task[j].tracks)) \o TranscribingWords)
    /\ task' = [ task EXCEPT ![j].pc = "spawn_whisper" ]
    /\ UNCHANGED << call, config >>
    /\ response' = NoResponse
    /\ UNCHANGED << procs, files, hist >>

\* run_whisper_segments up to the spawn of the recognizer and of the two
\* tasks that drain its output streams.
SpawnWhisper(j, In) ==
    /\ j \in JobIds
    /\ task[j].pc = "spawn_whisper"
    /\ \E ok \in In.oks, out \in In.whisperOut, err \in In.whisperErr :
          IF ok
          THEN /\ procs' = [ procs EXCEPT ![j] =
                      @ \cup { Child("whisper", task[j].index, out, err) } ]
               /\ task' = [ task EXCEPT ![j].pc = "wait_whisper" ]
               /\ Record(j, Event("spawn_whisper", task[j].index, << >>))
          ELSE /\ task' = [ task EXCEPT ![j] = Failed(@, "Failed to execute whisper") ]
               /\ UNCHANGED << procs, hist >>
    /\ UNCHANGED << call, config >>
    /\ response' = NoResponse
    /\ UNCHANGED << jobs, files >>

\* A child process exits, with status zero or not.
ChildExit(j, In) ==
    /\ j \in JobIds
    /\ \E p \in procs[j], code \in In.codes :
          /\ ~p.exited
          /\ CanExit(p)
          /\ procs' = [ procs EXCEPT ![j] =
                (@ \ { p }) \cup { [ p EXCEPT !.exited = TRUE, !.code = code ] } ]
    /\ UNCHANGED << call, config >>
    /\ response' = NoResponse
    /\ UNCHANGED << jobs, task, files, hist >>

\* One turn of a draining task: the next line of its stream, appended to the
\* log unless it is blank.
DrainLine(map, job_id, line) ==
    IF Trim(line) # << >> THEN append_log(map, job_id, line) ELSE map

\* The draining task of either pipe of a child takes its turn.
Drain(j) ==
    /\ j \in JobIds
    /\ \E p \in procs[j] :
          \/ /\ HasDrainTask(p.kind, "stdout")
             /\ p.out # << >>
             /\ jobs' = DrainLine(jobs, j, Head(p.out))
             /\ procs' = [ procs EXCEPT ![j] =
                   (@ \ { p }) \cup { [ p EXCEPT !.out = Tail(@) ] } ]
          \/ /\ HasDrainTask(p.kind, "stderr")
             /\ p.err # << >>
             /\ jobs' = DrainLine(jobs, j, Head(p.err))
             /\ procs' = [ procs EXCEPT ![j] =
                   (@ \ { p }) \cup { [ p EXCEPT !.err = Tail(@) ] } ]
    /\ UNCHANGED << call, config >>
    /\ response' = NoResponse
    /\ UNCHANGED << task, files, hist >>

\* child.wait(): the exit status of the child once it has exited, or an
\* error of the wait itself, which is returned at once and leaves the child
\* and the draining tasks behind.
WaitChild(j, In) ==
    /\ j \in JobIds
    /\ task[j].pc \in { "wait_ffmpeg", "wait_whisper" }
    /\ LET kind == IF task[j].pc = "wait_ffmpeg" THEN "ffmpeg" ELSE "whisper"
       IN  \E ok \in In.oks :
              IF ok
              THEN \E p \in Current(j, kind) :
                      /\ p.exited
                      /\ task' = [ task EXCEPT
                             ![j].status = p.code,
                             ![j].pc = IF kind = "ffmpeg" THEN "join_ffmpeg"
                                       ELSE "join_whisper" ]
              ELSE task' = [ task EXCEPT ![j] = Failed(@, "wait failed") ]
    /\ UNCHANGED << call, config >>
    /\ response' = NoResponse
    /\ UNCHANGED << jobs, procs, files, hist >>

\* A variant that goes on to the recognizer whatever the status of ffmpeg.
JoinFfmpegIgnoringStatus(j) ==
    /\ j \in JobIds
    /\ task[j].pc = "join_ffmpeg"
    /\ \E p \in Current(j, "ffmpeg") :
          /\ p.exited /\ p.err = << >>
          /\ procs' = [ procs EXCEPT ![j] = @ \ { p } ]
    /\ task' = [ task EXCEPT ![j].pc = "log_transcribing" ]
    /\ Record(j, Event("converted", task[j].index, << >>))
    /\ UNCHANGED << call, config >>
    /\ response' = NoResponse
    /\ UNCHANGED << jobs, files >>

\* The end of convert_to_wav: the draining task is joined, the status is
\* looked at.
JoinFfmpeg(j) ==
    /\ j \in JobIds
    /\ task[j].pc = "join_ffmpeg"
    /\ \E p \in Current(j, "ffmpeg") :
          /\ p.exited /\ p.err = << >>
          /\ procs' = [ procs EXCEPT ![j] = @ \ { p } ]
    /\ IF task[j].status # 0
       THEN /\ task' = [ task EXCEPT ![j] = Failed(@, "ffmpeg failed") ]
            /\ UNCHANGED hist
       ELSE /\ task' = [ task EXCEPT ![j].pc = "log_transcribing" ]
            /\ Record(j, Event("converted", task[j].index, << >>))
    /\ UNCHANGED << call, config >>
    /\ response' = NoResponse
    /\ UNCHANGED << jobs, files >>

\* A variant that looks at the status without joining the draining tasks.
JoinWhisperWithoutDrain(j) ==
    /\ j \in JobIds
    /\ task[j].pc = "join_whisper"
    /\ \E p \in Current(j, "whisper") :
          /\ p.exited
          /\ procs' = [ procs EXCEPT ![j] = @ \ { p } ]
    /\ IF task[j].status # 0
       THEN /\ task' = [ task EXCEPT ![j] = Failed(@, "Whisper command failed") ]
            /\ UNCHANGED hist
       ELSE /\ task' = [ task EXCEPT ![j].pc = "read_output" ]
            /\ Record(j, Event("recognized", task[j].index, << >>))
    /\ UNCHANGED << call, config >>
    /\ response' = NoResponse
    /\ UNCHANGED << jobs, files >>

\* Both draining tasks of the recognizer are joined, the status is looked at.
JoinWhisper(j) ==
    /\ j \in JobIds
    /\ task[j].pc = "join_whisper"
    /\ \E p \in Current(j, "whisper") :
          /\ p.exited /\ p.out = << >> /\ p.err = << >>
          /\ procs' = [ procs EXCEPT ![j] = @ \ { p } ]
    /\ IF task[j].status # 0
       THEN /\ task' = [ task EXCEPT ![j] = Failed(@, "Whisper command failed") ]
            /\ UNCHANGED hist
       ELSE /\ task' = [ task EXCEPT ![j].pc = "read_output" ]
            /\ Record(j, Event("recognized", task[j].index, << >>))
    /\ UNCHANGED << call, config >>
    /\ response' = NoResponse
    /\ UNCHANGED << jobs, files >>

\* The recognizer's output is read and parsed; the parser's result is either
\* an error or the list of recognized segments.  The segments of the track
\* are built, sorted and appended, and completed is set.
ReadOutput(j, In) ==
    /\ j \in JobIds
    /\ task[j].pc = "read_output"
    /\ \/ \E msg \in In.parseErrors :
             /\ task' = [ task EXCEPT ![j] = Failed(@, msg) ]
             /\ UNCHANGED << jobs, hist >>
       \/ \E segments \in In.results :
             LET track == task[j].tracks[task[j].index + 1]
                 track_segments ==
                     SortSegments(TrackSegments(segments,
                         TrackStartSeconds(track.track_time), track.speaker))
             IN  /\ task' = [ task EXCEPT
                        ![j].all_segments = @ \o track_segments,
                        ![j].index = @ + 1,
                        ![j].pc = "loop" ]
                 /\ jobs' = SetCompletedIn(jobs, j, task[j].index + 1)
                 /\ Record(j, Event("parsed", task[j].index, segments))
    /\ UNCHANGED << call, config >>
    /\ response' = NoResponse
    /\ UNCHANGED << procs, files >>

\* After the loop: the merge, the rendering and the write of the transcript.
WriteOutput(j, In) ==
    /\ j \in JobIds
    /\ task[j].pc = "loop"
    /\ ~HasNextTrack(task[j])
    /\ LET sorted == SortSegments(task[j].all_segments)
           output == format_segments(sorted, task[j].include_timestamps,
                                     task[j].include_speaker)
       IN  \E ok \in In.oks :
              IF ok
              THEN /\ files' = Extend(files, task[j].output_path, output)
                   /\ task' = [ task EXCEPT ![j].all_segments = sorted,
                                            ![j].pc = "log_blank" ]
                   /\ Record(j, Event("write", task[j].index, task[j].output_path))
              ELSE /\ task' = [ task EXCEPT ![j] =
                          Failed([ @ EXCEPT !.all_segments = sorted ],
                                 "Failed to write output") ]
                   /\ UNCHANGED << files, hist >>
    /\ UNCHANGED << call, config >>
    /\ response' = NoResponse
    /\ UNCHANGED << jobs, procs >>

LogBlank(j) ==
    /\ j \in JobIds
    /\ task[j].pc = "log_blank"
    /\ jobs' = append_log(jobs, j, << >>)
    /\ task' = [ task EXCEPT ![j].pc = "log_done" ]
    /\ UNCHANGED << call, config >>
    /\ response' = NoResponse
    /\ UNCHANGED << procs, files, hist >>

LogDone(j) ==
    /\ j \in JobIds
    /\ task[j].pc = "log_done"
    /\ jobs' = append_log(jobs, j, DoneLine)
    /\ task' = [ task EXCEPT ![j].pc = "mark_done" ]
    /\ UNCHANGED << call, config >>
    /\ response' = NoResponse
    /\ UNCHANGED << procs, files, hist >>

\* The last lock section of run_transcription, which then returns Ok.
MarkDone(j) ==
    /\ j \in JobIds
    /\ task[j].pc = "mark_done"
    /\ jobs' = MarkDoneIn(jobs, j, task[j].output_path)
    /\ task' = [ task EXCEPT ![j].pc = "finished" ]
    /\ UNCHANGED << call, config >>
    /\ response' = NoResponse
    /\ UNCHANGED << procs, files, hist >>

\* run_transcription has returned Err: the spawned task of start_transcribe
\* records the failure.
MarkFailed(j) ==
    /\ j \in JobIds
    /\ task[j].pc = "err"
    /\ jobs' = MarkFailedIn(jobs, j, task[j].err)
    /\ task' = [ task EXCEPT ![j].pc = "finished" ]
    /\ UNCHANGED << call, config >>
    /\ response' = NoResponse
    /\ UNCHANGED << procs, files, hist >>

(***************************************************************************)
(* Specifications                                                          *)
(***************************************************************************)

\* The steps of the background task of job j, of its children and of its
\* draining tasks.
JobStep(j, In) ==
    \/ CheckResources(j, In)
    \/ ListPage(j, In)
    \/ DiscoverDone(j)
    \/ MakeDirs(j, In)
    \/ LogDownloading(j)
    \/ Download(j, In)
    \/ LogConverting(j)
    \/ SpawnFfmpeg(j, In)
    \/ LogTranscribing(j)
    \/ SpawnWhisper(j, In)
    \/ ChildExit(j, In)
    \/ Drain(j)
    \/ WaitChild(j, In)
    \/ JoinFfmpeg(j)
    \/ JoinWhisper(j)
    \/ ReadOutput(j, In)
    \/ WriteOutput(j, In)
    \/ LogBlank(j)
    \/ LogDone(j)
    \/ MarkDone(j)
    \/ MarkFailed(j)

Step(In) ==
    \/ StartTranscribeConfigError(In)
    \/ StartTranscribe(In)
    \/ GetTranscribeStatus(In)
    \/ \E j \in 1..In.maxJobs : JobStep(j, In)

\* The number of jobs started in the specification of concurrent jobs.
MaxJobs == 2

\* The longest output of the recognizer for one track, in segments.
MaxSegments == 2

Seg(start, text) == [ start |-> start, text |-> text ]

\* Recognized segments: out of order, with equal starts, with blank text and
\* with text to trim.
SegmentValues ==
    { Seg(0, << "a" >>), Seg(3000, << "b" >>), Seg(3000, << " ", "c", " " >>), Seg(3000, << " " >>) }

SeqsUpTo(S, n) == UNION { [ 1..k -> S ] : k \in 0..n }

ParseErrors == { "Failed to read whisper output", "Failed to parse whisper JSON output" }

\* Concurrent jobs, each on the meeting of one track; the store, the file
\* system and the spawns do not fail, a job fails by the nonzero exit status
\* of a child.
Concurrent ==
    [ maxJobs |-> MaxJobs,
      meetings |-> { MeetingSolo },
      flags |-> { << FALSE, TRUE >> },
      binary |-> { TRUE }, model |-> { TRUE }, ffmpeg |-> { TRUE },
      oks |-> { TRUE },
      codes |-> { 0, 1 },
      parseErrors |-> { },
      results |-> { << Seg(0, << "a" >>) >> },
      ffmpegOut |-> { << >> },
      ffmpegErr |-> { << >> },
      whisperOut |-> { << << "x" >> >> },
      whisperErr |-> { << >> } ]

\* One job, on every meeting, with every recognizer output and every fault.
Single ==
    [ maxJobs |-> 1,
      meetings |-> Meetings,
      flags |-> { << TRUE, TRUE >> },
      binary |-> BOOLEAN, model |-> BOOLEAN, ffmpeg |-> BOOLEAN,
      oks |-> BOOLEAN,
      codes |-> { 0, 1 },
      parseErrors |-> ParseErrors,
      results |-> SeqsUpTo(SegmentValues, MaxSegments),
      ffmpegOut |-> { << >> },
      ffmpegErr |-> { << << "x" >> >> },
      whisperOut |-> { << << " " >> >> },
      whisperErr |-> { << >> } ]

Next ==
    \/ Step(Concurrent)
    \/ SetConfig(Concurrent)

Spec == Init /\ [][Next]_vars

\* The pipeline of one job from its start on, without further commands.
NextPipeline ==
    \/ StartTranscribe(Single)
    \/ \E j \in 1..Single.maxJobs : JobStep(j, Single)

SpecPipeline == Init /\ [][NextPipeline]_vars

(***************************************************************************)
(* Properties                                                              *)
(***************************************************************************)

Terminal == { "done", "failed" }

\* Two concurrent jobs in which every request, file operation and child
\* process may fail.  The jobs share nothing but the registry, whose lock
\* sections are steps of their own.
Faulty ==
    [ maxJobs |-> 2,
      meetings |-> { MeetingSolo, MeetingNone },
      flags |-> { << FALSE, TRUE >> },
      binary |-> BOOLEAN, model |-> { TRUE }, ffmpeg |-> { TRUE },
      oks |-> BOOLEAN, codes |-> { 0, 1 },
      parseErrors |-> { "Failed to parse whisper JSON output" },
      results |-> { << Seg(0, << "a" >>) >> },
      ffmpegOut |-> { << >> },
      ffmpegErr |-> { << >> },
      whisperOut |-> { << << "x" >> >> },
      whisperErr |-> { << >> } ]

NextFaulty == Step(Faulty)

\* The runtime schedules every spawned task, and the children and the store
\* answer: a job that can take a step eventually takes one.
SpecFair ==
    /\ Init
    /\ [][NextFaulty]_vars
    /\ \A j \in 1..Faulty.maxJobs : WF_vars(JobStep(j, Faulty))

\* C1: every job starts as running; its state changes only from running, to
\* done or to failed, so at most once; and no job has both an output path and
\* an error.
C1_StateChangesOnce ==
    [][ /\ \A j \in DOMAIN jobs' \ DOMAIN jobs : jobs'[j].state = "running"
        /\ \A j \in DOMAIN jobs :
              /\ j \in DOMAIN jobs'
              /\ jobs'[j].state # jobs[j].state =>
                    jobs[j].state = "running" /\ jobs'[j].state \in Terminal
              /\ ~(jobs'[j].output_path.some /\ jobs'[j].error.some) ]_vars

\* One job has ended in done while another has ended in failed.
C1_Witness ==
    \E j, k \in JobIds : jobs[j].state = "done" /\ jobs[k].state = "failed"

\* C2: in every state of the registry, a running job has neither output path
\* nor error; a done job has an output path, no error, completed = total and
\* "Done" as the last line of its log; a failed job has an error and no output
\* path.
C2_StatusShape ==
    \A j \in JobIds :
        LET st == jobs[j]
        IN  /\ st.state \in { "running", "done", "failed" }
            /\ st.state = "running" => ~st.output_path.some /\ ~st.error.some
            /\ st.state = "done" =>
                  /\ st.output_path.some
                  /\ ~st.error.some
                  /\ st.completed = st.total
                  /\ st.log # << >>
                  /\ st.log[Len(st.log)] = DoneLine
            /\ st.state = "failed" => st.error.some /\ ~st.output_path.some

\* A job is done with a line of a subprocess in its log, while another job is
\* still running.
C2_Witness ==
    \E j, k \in JobIds :
        /\ jobs[j].state = "done"
        /\ \E i \in 1..Len(jobs[j].log) : jobs[j].log[i] = << "x" >>
        /\ jobs[k].state = "running"
        /\ jobs[k].log # << >>

\* C7: entries are never removed, so a status request on an id that
\* start_transcribe returned succeeds with a copy of the current entry, a
\* failed job included; on an id never created it gives "Job not found"; and
\* the request leaves the registry as it is.
C7_StatusRequest ==
    [][ /\ \A j \in DOMAIN jobs : j \in DOMAIN jobs'
        /\ (response'.op = "start_transcribe" /\ response'.ok) =>
              response'.id \in DOMAIN jobs'
        /\ response'.op = "get_transcribe_status" =>
              /\ jobs' = jobs
              /\ IF response'.arg \in DOMAIN jobs
                 THEN /\ response'.ok
                      /\ response'.status = Some(jobs[response'.arg])
                      /\ response'.error = ""
                 ELSE /\ ~response'.ok
                      /\ response'.status = None
                      /\ response'.error = "Job not found" ]_vars

\* A status request has returned the entry of a failed job, and another one
\* would find no entry.
C7_Witness ==
    /\ response.op = "get_transcribe_status"
    /\ response.ok
    /\ response.status.val.state = "failed"
    /\ response.status.val.error.some
    /\ Cardinality(JobIds) < MaxJobs

\* The positions of the events of one kind in a history.
EventsOf(h, op) == { i \in 1..Len(h) : h[i].op = op }

\* The keys of the bucket that are track objects of a meeting.
TrackKeysOf(meeting_id) ==
    { Bucket[i] : i \in { k \in 1..Len(Bucket) :
          /\ StartsWith(Bucket[k], meeting_id \o Slash)
          /\ Len(Split(Bucket[k], "/")) = 5 } }

C5_CompletedMonotone ==
    [][ \A j \in DOMAIN jobs' :
           /\ jobs'[j].completed <= jobs'[j].total
           /\ j \in DOMAIN jobs => jobs'[j].completed >= jobs[j].completed
           /\ task'[j].pc \in { "start", "list", "total" } =>
                 jobs'[j].completed = 0 /\ jobs'[j].total = 0 ]_vars

\* The first of two tracks is completed and the job is still running.
C5_Witness ==
    \E j \in JobIds :
        /\ jobs[j].completed = 1
        /\ jobs[j].total = 2
        /\ jobs[j].state = "running"

\* C6: when the binary, the model or ffmpeg is not found, the job goes from
\* running to failed with completed = 0 and total = 0, and nothing else has
\* happened: no listing, no download, no child process, no file.
C6_FailFast ==
    \A j \in JobIds :
        LET h == hist[j]
        IN  (h # << >> /\ h[1].op = "resources" /\ FALSE \in { h[1].data[i] : i \in 1..3 }) =>
               /\ Len(h) = 1
               /\ procs[j] = { }
               /\ task[j].tracks = << >>
               /\ task[j].output_path \notin DOMAIN files
               /\ jobs[j].completed = 0 /\ jobs[j].total = 0
               /\ task[j].pc \in { "err", "finished" }
               /\ jobs[j].state = IF task[j].pc = "err" THEN "running" ELSE "failed"
               /\ jobs[j].state = "failed" =>
                     jobs[j].error \in { Some("Whisper binary not found"),
                                         Some("Whisper model not found"),
                                         Some("ffmpeg not found") }

\* A job has failed because ffmpeg was not found, the binary and the model
\* being there.
C6_Witness ==
    \E j \in JobIds :
        /\ hist[j] = << Event("resources", 0, << TRUE, TRUE, FALSE >>) >>
        /\ jobs[j].state = "failed"
        /\ jobs[j].error = Some("ffmpeg not found")

\* The track time that the key of a download names.
TrackTimeOfKey(key) == parse_key(key).val.track_time

\* The steps of the processing of one track that start something.
StartOps == { "download", "spawn_ffmpeg", "spawn_whisper" }

\* C10: the tracks are processed one at a time in the order of their track
\* times: the downloads follow that order, nothing of a track starts before
\* the segments of the track before it were appended and completed was set to
\* the number of tracks before it, and at most one child runs at a time.
C10_OneTrackAtATime ==
    \A j \in JobIds :
        LET h == hist[j]
            downloads == EventsOf(h, "download")
        IN  /\ \A a \in downloads :
                  /\ h[a].track = Cardinality({ b \in downloads : b < a })
                  /\ h[a].data = task[j].tracks[h[a].track + 1].key
                  /\ \A b \in downloads :
                        a < b => compare_time_string(TrackTimeOfKey(h[a].data),
                                                     TrackTimeOfKey(h[b].data)) <= 0
            /\ \A i \in 1..Len(h) :
                  (h[i].op \in StartOps /\ h[i].track > 0) =>
                     \E k \in 1..(i - 1) :
                        h[k].op = "parsed" /\ h[k].track = h[i].track - 1
            /\ task[j].pc \in { "download", "log_converting", "spawn_ffmpeg",
                                "wait_ffmpeg", "join_ffmpeg", "log_transcribing",
                                "spawn_whisper", "wait_whisper", "join_whisper",
                                "read_output" } =>
                  /\ jobs[j].completed = task[j].index
                  /\ Cardinality(EventsOf(h, "parsed")) = task[j].index
            /\ Cardinality({ p \in procs[j] : ~p.exited }) <= 1

\* The recognizer runs on the second track, after the first track was parsed.
C10_Witness ==
    \E j \in JobIds :
        /\ \E p \in procs[j] : p.kind = "whisper" /\ p.track = 1 /\ ~p.exited
        /\ jobs[j].completed = 1
        /\ task[j].tracks[1].key # Bucket[1]

\* The segments expected of one track: its recognized segments of text that
\* is not blank, in the recognizer's order, at the track's start plus their
\* offset, under the speaker that the key of the track names.
Anchored(segments, key) ==
    LET kept == SelectSeq(segments,
                    LAMBDA s : \E i \in 1..Len(s.text) : ~IsWhitespace(s.text[i]))
        time == parse_time_any(TrackTimeOfKey(key))
        base == IF time.some THEN time.val.secs * 1000 ELSE 0
    IN  [ i \in 1..Len(kept) |->
            [ start |-> base + kept[i].start,
              speaker |-> parse_key(key).val.speaker,
              text |-> Trim(kept[i].text) ] ]

\* The key that was downloaded for a track of a history.
KeyOfTrack(h, track) ==
    h[CHOOSE d \in EventsOf(h, "download") : h[d].track = track].data

\* The expected segments of the tracks of a history, track after track, from
\* position i on.
RECURSIVE AppendedFrom(_, _)
AppendedFrom(h, i) ==
    IF i > Len(h) THEN << >>
    ELSE IF h[i].op = "parsed"
         THEN Anchored(h[i].data, KeyOfTrack(h, h[i].track)) \o AppendedFrom(h, i + 1)
         ELSE AppendedFrom(h, i + 1)

Count(seq, x) == Cardinality({ i \in 1..Len(seq) : seq[i] = x })

\* C9: the segments of a job that is done are, each as often as it was
\* recognized, the recognized segments of non-blank text of the tracks of the
\* meeting and no others, each at the start of its track plus its offset
\* and under the speaker of its track.
C9_ExactlyTheRecognizedSegments ==
    \A j \in JobIds :
        jobs[j].state = "done" =>
            LET final == task[j].all_segments
                h == hist[j]
                expected == AppendedFrom(h, 1)
            IN  /\ { h[d].data : d \in EventsOf(h, "download") }
                      = TrackKeysOf(task[j].meeting_id)
                /\ Cardinality(EventsOf(h, "parsed"))
                      = Cardinality(TrackKeysOf(task[j].meeting_id))
                /\ Len(final) = Len(expected)
                /\ \A i \in 1..Len(expected) :
                      Count(final, expected[i]) = Count(expected, expected[i])

\* A job on two tracks is done; the recognizer gave a blank segment for one
\* track, and two segments of the other track are there.
C9_Witness ==
    \E j \in JobIds :
        /\ jobs[j].state = "done"
        /\ Len(task[j].tracks) = 2
        /\ \E p \in EventsOf(hist[j], "parsed") :
              \E i \in 1..Len(hist[j][p].data) : hist[j][p].data[i].text = << " " >>
        /\ \E a, b \in 1..Len(task[j].all_segments) :
              /\ a # b
              /\ task[j].all_segments[a].speaker = task[j].all_segments[b].speaker

\* C4: under fair scheduling of the job's task, with every request, file
\* operation and child process returning, every job that was started is
\* eventually done or failed, whatever the callers do.
C4_EveryJobEnds ==
    \A j \in 1..Faulty.maxJobs :
        [](j \in JobIds => <>(j \in JobIds /\ jobs[j].state \in Terminal))

\* Every job has ended, one of them failed by a wait that returned an error,
\* and nobody has asked for a status.
C4_Witness ==
    /\ Cardinality(JobIds) = Faulty.maxJobs
    /\ \A j \in JobIds : jobs[j].state \in Terminal
    /\ \E j \in JobIds : jobs[j].error = Some("wait failed")
    /\ \E j \in JobIds : jobs[j].state = "done"
    /\ response.op # "get_transcribe_status"

\* One job on the meeting of two tracks whose children write several lines
\* to each stream; ffmpeg writes nothing to its standard output, or more than
\* a pipe holds.
Chatty ==
    [ maxJobs |-> 1,
      meetings |-> { MeetingTwo },
      flags |-> { << TRUE, TRUE >> },
      binary |-> { TRUE }, model |-> { TRUE }, ffmpeg |-> { TRUE },
      oks |-> { TRUE },
      codes |-> { 0, 1 },
      parseErrors |-> { },
      results |-> { << Seg(0, << "a" >>) >> },
      ffmpegOut |-> { << >>, [ i \in 1..(PipeCapacity + 1) |-> << "s" >> ] },
      ffmpegErr |-> { << << "f" >>, << "g" >> >> },
      whisperOut |-> { << << "o" >>, << "p" >> >> },
      whisperErr |-> { << << "u" >>, << "v" >> >> } ]

NextStreams == Step(Chatty)

SpecStreams == Init /\ [][NextStreams]_vars

\* C11: no child is ever blocked for good on a full pipe: whenever a child
\* that has not exited holds more unread output on a stream than the pipe
\* takes, a task drains that stream.
C11_NoChildBlockedOnFullPipe ==
    \A j \in JobIds :
        \A p \in procs[j] :
            ~p.exited =>
                /\ Len(p.out) > PipeCapacity => HasDrainTask(p.kind, "stdout")
                /\ Len(p.err) > PipeCapacity => HasDrainTask(p.kind, "stderr")

\* The lines that the children of the streams specification write.
FfmpegErrLines == CHOOSE lines \in Chatty.ffmpegErr : TRUE

WhisperOutLines == CHOOSE lines \in Chatty.whisperOut : TRUE

WhisperErrLines == CHOOSE lines \in Chatty.whisperErr : TRUE

LinesOf(stream) == { stream[i] : i \in 1..Len(stream) }

ChildLines == LinesOf(FfmpegErrLines) \cup LinesOf(WhisperOutLines) \cup LinesOf(WhisperErrLines)

IsPrefix(a, b) == Len(a) <= Len(b) /\ a = SubSeq(b, 1, Len(a))

\* The lines of a log behind position q, up to the next progress line.
BlockAfter(log, q) ==
    LET later == { i \in (q + 1)..Len(log) : log[i] \notin ChildLines }
        stop == IF later = { } THEN Len(log) + 1
                ELSE CHOOSE i \in later : \A k \in later : i <= k
    IN  SubSeq(log, q + 1, stop - 1)

\* The lines of a stream in a block, in the order of the block.
FromStream(block, stream) == SelectSeq(block, LAMBDA line : line \in LinesOf(stream))

\* The positions of a line in a log.
PositionsOf(log, line) == { i \in 1..Len(log) : log[i] = line }

\* Each stream's lines are in the stream's order, and complete once the
\* track counts as completed.
StreamsInOrder(j) ==
    LET log == jobs[j].log
        n == jobs[j].total
    IN  \A k \in 1..n :
           /\ \A q \in PositionsOf(log, ProgressLabel(k - 1, n) \o ConvertingWords) :
                 LET block == BlockAfter(log, q)
                 IN  /\ IsPrefix(FromStream(block, FfmpegErrLines), FfmpegErrLines)
                     /\ jobs[j].completed >= k =>
                           FromStream(block, FfmpegErrLines) = FfmpegErrLines
           /\ \A q \in PositionsOf(log, ProgressLabel(k - 1, n) \o TranscribingWords) :
                 LET block == BlockAfter(log, q)
                 IN  /\ IsPrefix(FromStream(block, WhisperOutLines), WhisperOutLines)
                     /\ IsPrefix(FromStream(block, WhisperErrLines), WhisperErrLines)
                     /\ jobs[j].completed >= k =>
                           /\ FromStream(block, WhisperOutLines) = WhisperOutLines
                           /\ FromStream(block, WhisperErrLines) = WhisperErrLines
           /\ jobs[j].completed >= k =>
                 /\ PositionsOf(log, ProgressLabel(k - 1, n) \o ConvertingWords) # { }
                 /\ PositionsOf(log, ProgressLabel(k - 1, n) \o TranscribingWords) # { }

\* The progress line that a line of a child follows most closely.
ProgressBefore(log, i) ==
    LET earlier == { q \in 1..(i - 1) : log[q] \notin ChildLines }
    IN  IF earlier = { } THEN << >>
        ELSE log[CHOOSE q \in earlier : \A k \in earlier : k <= q]

EndsWith(line, words) ==
    Len(line) >= Len(words) /\ SubSeq(line, Len(line) - Len(words) + 1, Len(line)) = words

\* C12: in the log of a job, the lines of each stream of a child are in the
\* order of the stream; the lines of the recognizer follow the "transcribing"
\* line of their track and the lines of ffmpeg its "converting" line; and
\* all lines of the children of track k are there once completed is k.
C12_StreamLinesInOrder ==
    \A j \in JobIds :
        /\ StreamsInOrder(j)
        /\ \A i \in 1..Len(jobs[j].log) :
              LET line == jobs[j].log[i]
                  progress == ProgressBefore(jobs[j].log, i)
              IN  /\ line \in LinesOf(WhisperOutLines) \cup LinesOf(WhisperErrLines) =>
                        EndsWith(progress, TranscribingWords)
                  /\ line \in LinesOf(FfmpegErrLines) =>
                        EndsWith(progress, ConvertingWords)

\* C12 as stated: every line of a child, of ffmpeg too, follows the
\* "transcribing" line of its track.
C12_AllChildLinesFollowTranscribing ==
    \A j \in JobIds :
        /\ StreamsInOrder(j)
        /\ \A i \in 1..Len(jobs[j].log) :
              jobs[j].log[i] \in ChildLines =>
                  EndsWith(ProgressBefore(jobs[j].log, i), TranscribingWords)

\* A job is done whose log has the lines of the recognizer's two streams
\* interleaved, behind the lines of ffmpeg.
C12_Witness ==
    \E j \in JobIds :
        /\ jobs[j].state = "done"
        /\ jobs[j].completed = 2
        /\ \E a, b, c, d \in 1..Len(jobs[j].log) :
              /\ a < b /\ b < c /\ c < d
              /\ jobs[j].log[a] = FfmpegErrLines[2]
              /\ jobs[j].log[b] = WhisperOutLines[1]
              /\ jobs[j].log[c] = WhisperErrLines[1]
              /\ jobs[j].log[d] = WhisperOutLines[2]

(***************************************************************************)
(* Recognition Output Parser                                               *)
(***************************************************************************)

\* serde_json::Value: a number, a string, an array, an object (a function of
\* its keys); NotJson stands for a text that serde_json::from_str refuses.
JNum(n) == [ t |-> "num", n |-> n ]

JStr(s) == [ t |-> "str", s |-> s ]

JArr(a) == [ t |-> "arr", a |-> a ]

JObj(f) == [ t |-> "obj", f |-> f ]

NotJson == [ t |-> "invalid" ]

\* Value::get(key)
Get(value, key) ==
    IF value.t = "obj" /\ key \in DOMAIN value.f THEN Some(value.f[key]) ELSE None

\* The contents of the recognizer's JSON file: what from_str makes of the
\* text between the first and the last bracket (whole), what it makes of each
\* non-empty line of that text (lines), and whether a byte order mark, blanks
\* or a banner without brackets surround it (wrapped).
Contents(wrapped, whole, lines) == [ wrapped |-> wrapped, whole |-> whole, lines |-> lines ]

\* normalize_json_contents: the text from the first to the last bracket.
normalize_json_contents(contents) == [ contents EXCEPT !.wrapped = FALSE ]

\* A segment; the start is kept in milliseconds, which makes the divisions of
\* the source exact.
Segment(start, text) == [ start |-> start, text |-> text ]

\* <f64 as FromStr>::from_str, of the strings of digits; no other string of
\* the inputs here is a number.
ParseF64(s) ==
    IF s # << >> /\ (\A i \in 1..Len(s) : IsDigit(s[i]))
    THEN Some(DigitsValue(s, 0))
    ELSE None

\* parse_timestamp_to_seconds, in milliseconds.
parse_timestamp_to_seconds(value) ==
    LET parts == Split(value, ":")
    IN  IF Len(parts) < 3 THEN None
        ELSE LET hours == ParseF64(parts[1])
                 minutes == ParseF64(parts[2])
                 sec_parts == Split(parts[3], ",")
                 seconds == ParseF64(sec_parts[1])
                 millis == IF Len(sec_parts) >= 2 /\ ParseF64(sec_parts[2]).some
                           THEN ParseF64(sec_parts[2]).val ELSE 0
             IN  IF hours.some /\ minutes.some /\ seconds.some
                 THEN Some((hours.val * 3600 + minutes.val * 60 + seconds.val) * 1000 + millis)
                 ELSE None

\* None for the empty list, Some of any other list.
NonEmpty(list) == IF list = << >> THEN None ELSE Some(list)

\* segment_from_value
segment_from_value(value) ==
    LET text == IF Get(value, "text").some /\ Get(value, "text").val.t = "str"
                THEN Get(value, "text").val.s ELSE << >>
        from == Get(IF Get(value, "offsets").some THEN Get(value, "offsets").val
                    ELSE Get(value, "timestamps").val, "from")
        start == IF Get(value, "start").some /\ Get(value, "start").val.t = "num"
                    THEN Get(value, "start").val.n * 1000
                 ELSE IF Get(value, "offsets").some
                    THEN IF from.some /\ from.val.t = "num" THEN from.val.n ELSE 0
                 ELSE IF Get(value, "timestamps").some
                    THEN IF from.some /\ from.val.t = "str"
                            /\ parse_timestamp_to_seconds(from.val.s).some
                         THEN parse_timestamp_to_seconds(from.val.s).val ELSE 0
                 ELSE IF Get(value, "t0").some /\ Get(value, "t0").val.t = "num"
                    THEN Get(value, "t0").val.n * 10
                 ELSE 0
    IN  IF value.t # "obj" \/ Trim(text) = << >> THEN None ELSE Some(Segment(start, text))

\* segments_from_array
segments_from_array(items) ==
    LET found == SelectSeq([ i \in 1..Len(items) |-> segment_from_value(items[i]) ],
                           LAMBDA segment : segment.some)
    IN  NonEmpty([ i \in 1..Len(found) |-> found[i].val ])

\* extract_segments_from_value: the value under "segments", else the one
\* under "transcription", else the one under "segments" of "results", else
\* the value itself is taken for the array.
extract_segments_from_value(value) ==
    LET array == IF Get(value, "segments").some THEN Get(value, "segments").val
                 ELSE IF Get(value, "transcription").some THEN Get(value, "transcription").val
                 ELSE IF Get(value, "results").some
                         /\ Get(Get(value, "results").val, "segments").some
                    THEN Get(Get(value, "results").val, "segments").val
                 ELSE value
    IN  IF array.t = "arr" THEN segments_from_array(array.a) ELSE None

\* The segments that parse_json_lines takes from one line; a line that is
\* not JSON is skipped.
LineSegments(value) ==
    IF value.t = "invalid" THEN << >>
    ELSE IF extract_segments_from_value(value).some
         THEN extract_segments_from_value(value).val
    ELSE IF segment_from_value(value).some THEN << segment_from_value(value).val >>
    ELSE << >>

\* Vec::extend, list by list.
RECURSIVE Concat(_)
Concat(lists) == IF lists = << >> THEN << >> ELSE Head(lists) \o Concat(Tail(lists))

parse_json_lines(contents) ==
    NonEmpty(Concat([ i \in 1..Len(contents.lines) |-> LineSegments(contents.lines[i]) ]))

\* The derived Deserialize of WhisperSegment: an object with a number "start"
\* and a string "text", other keys ignored, or an array of the two.
DeserializeSegment(value) ==
    IF /\ value.t = "obj"
       /\ Get(value, "start").some /\ Get(value, "start").val.t = "num"
       /\ Get(value, "text").some /\ Get(value, "text").val.t = "str"
    THEN Some(Segment(Get(value, "start").val.n * 1000, Get(value, "text").val.s))
    ELSE IF value.t = "arr" /\ Len(value.a) = 2 /\ value.a[1].t = "num" /\ value.a[2].t = "str"
    THEN Some(Segment(value.a[1].n * 1000, value.a[2].s))
    ELSE None

\* The Deserialize of Vec<WhisperSegment>: an array of which every element
\* is a WhisperSegment; the empty array is one.
DeserializeSegments(value) ==
    IF value.t = "arr" /\ \A i \in 1..Len(value.a) : DeserializeSegment(value.a[i]).some
    THEN Some([ i \in 1..Len(value.a) |-> DeserializeSegment(value.a[i]).val ])
    ELSE None

\* The derived Deserialize of WhisperJson: an object with the array
\* "segments", or an array of that one field.
DeserializeWhisperJson(value) ==
    DeserializeSegments(IF Get(value, "segments").some THEN Get(value, "segments").val
                        ELSE IF value.t = "arr" /\ Len(value.a) = 1 THEN value.a[1]
                        ELSE NotJson)

Ok(segments) == [ ok |-> TRUE, segments |-> segments, error |-> "" ]

Err(error) == [ ok |-> FALSE, segments |-> << >>, error |-> error ]

\* The end of run_whisper_segments: the segments of the first attempt that
\* has some; without them the error of contents that are not JSON, else the
\* one segment of the text file, else the error.
Conclude(found, value, cleaned) ==
    IF found.some THEN Ok(found.val)
    ELSE IF value.t = "invalid" THEN Err("Failed to parse whisper JSON output")
    ELSE IF cleaned # << >> THEN Ok(<< Segment(0, cleaned) >>)
    ELSE Err("Failed to parse whisper JSON output")

\* run_whisper_segments behind the exit of the child: the JSON file is read
\* and parsed; json and txt are the two files, None if a file is not there.
\* The attempts on the normalized contents are made in their order; contents
\* that are not JSON fail in no attempt but that of the lines, so their error
\* comes behind the attempts; the second parse_json_lines gives what the
\* first gave; then the text file.
ParseOutput(json, txt) ==
    LET contents == normalize_json_contents(json.val)
        found == IF DeserializeWhisperJson(contents.whole).some
                    THEN DeserializeWhisperJson(contents.whole)
                 ELSE IF DeserializeSegments(contents.whole).some
                    THEN DeserializeSegments(contents.whole)
                 ELSE IF parse_json_lines(contents).some THEN parse_json_lines(contents)
                 ELSE extract_segments_from_value(contents.whole)
        cleaned == Join(SelectSeq([ i \in 1..(IF txt.some THEN Len(txt.val) ELSE 0) |->
                                        Trim(txt.val[i]) ],
                                  LAMBDA line : line # << >>), << " " >>)
    IN  IF ~json.some THEN Err("Failed to read whisper output")
        ELSE IF found.some THEN Ok(found.val)
        ELSE IF contents.whole.t = "invalid" THEN Err("Failed to parse whisper JSON output")
        ELSE IF cleaned # << >> THEN Ok(<< Segment(0, cleaned) >>)
        ELSE Err("Failed to parse whisper JSON output")

\* The five shapes of the recognizer's output.
Shapes == { "segments", "array", "lines", "transcription", "results" }

\* The utterances of a list, each an object of a number "start" and a string
\* "text", in one of the five shapes; the four shapes of one value are
\* written on one line, or (spread) over lines none of which is a value by
\* itself.
Encode(shape, data, spread) ==
    LET items == [ i \in 1..Len(data) |->
                       JObj([ start |-> JNum(data[i].start), text |-> JStr(data[i].text) ]) ]
        value == CASE shape = "segments" -> JObj([ segments |-> JArr(items) ])
                   [] shape = "array" -> JArr(items)
                   [] shape = "transcription" -> JObj([ transcription |-> JArr(items) ])
                   [] shape = "results" -> JObj([ results |-> JObj([ segments |-> JArr(items) ]) ])
                   [] shape = "lines" -> IF Len(items) = 1 THEN items[1] ELSE NotJson
    IN  IF shape = "lines" THEN Contents(FALSE, value, items)
        ELSE Contents(FALSE, value, IF spread THEN << NotJson >> ELSE << value >>)

\* The longest list of utterances.
MaxUtterances == 2

\* Utterances: with text, with blank text.
Pairs == { Segment(1, << "a" >>), Segment(2, << " " >>), Segment(3, << "b", " " >>) }

\* The contents of the JSON file: the five shapes; outputs of whisper.cpp with
\* the start under "offsets", "timestamps" or "t0"; lines of which some are
\* not JSON; values without segments; a text that is not JSON at all; each
\* also behind a banner.
JsonFiles ==
    LET offsets == JObj([ offsets |-> JObj([ from |-> JNum(1500) ]), text |-> JStr(<< "c" >>) ])
        timestamps ==
            JObj([ timestamps |->
                       JObj([ from |-> JStr(<< "0", ":", "0", "1", ":", "0", "2", ",", "5" >>) ]),
                   text |-> JStr(<< "d" >>) ])
        ticks == JObj([ t0 |-> JNum(150), text |-> JStr(<< "e" >>) ])
        plain ==
            { Encode(shape, data, spread) :
                shape \in Shapes, data \in SeqsUpTo(Pairs, MaxUtterances), spread \in BOOLEAN }
            \cup { Contents(FALSE, JObj([ transcription |-> JArr(<< offsets, timestamps >>) ]),
                            << NotJson >>),
                   Contents(FALSE, NotJson, << NotJson, ticks, JArr(<< offsets >>) >>),
                   Contents(FALSE, JObj([ text |-> JStr(<< "a" >>) ]), << NotJson >>),
                   Contents(FALSE, JObj([ segments |-> JStr(<< "a" >>) ]), << NotJson >>),
                   Contents(FALSE, JArr(<< JArr(<< JArr(<< JNum(1), JStr(<< "a" >>) >>) >>) >>),
                            << NotJson >>),
                   Contents(FALSE, NotJson, << NotJson >>),
                   Contents(FALSE, NotJson, << >>) }
    IN  plain \cup { [ contents EXCEPT !.wrapped = TRUE ] : contents \in plain }

\* The companion text file: missing, empty, blank, with lines to trim.
TextFiles ==
    { None, Some(<< >>), Some(<< << " " >>, << >> >>),
      Some(<< << " ", "x", " " >>, << >>, << "y" >> >>) }

(***************************************************************************)
(* Meeting listing                                                         *)
(***************************************************************************)

\* extract_room_label
extract_room_label(room_id) ==
    LET PREFIX == << "l", "o", "c", "a", "l", "W", "o", "r", "l", "d", "." >>
        cut == IF StartsWith(room_id, PREFIX)
               THEN SplitOnce(SubSeq(room_id, Len(PREFIX) + 1, Len(room_id)), "-")
               ELSE None
    IN  IF cut.some /\ cut.val[2] # << >> THEN cut.val[2] ELSE room_id

\* The loop of list_meetings over the pages of the listing: the keys of all
\* pages, in order.
RECURSIVE ListAll(_, _, _)
ListAll(bucket, prefix, token) ==
    LET resp == ListObjectsV2(bucket, prefix, token)
    IN  resp.contents \o
        (IF resp.is_truncated /\ resp.next_continuation_token.some
         THEN ListAll(bucket, prefix, resp.next_continuation_token)
         ELSE << >>)

\* A variant that counts the speakers as the tracks.
SummaryCountingSpeakers(id, parsed) ==
    LET mine == SelectSeq(parsed, LAMBDA p : MkMeetingId(p.date, p.room_id, p.meeting_time) = id)
        speakers == { mine[i].speaker : i \in 1..Len(mine) }
    IN  [ id |-> id, date |-> mine[1].date, room_id |-> mine[1].room_id,
          room_label |-> extract_room_label(mine[1].room_id),
          meeting_time |-> mine[1].meeting_time,
          speaker_count |-> Cardinality(speakers), track_count |-> Cardinality(speakers) ]

\* The MeetingSummary of the map entry of one meeting id: the entry is made
\* by the first key of the meeting, each key adds its speaker and counts.
Summary(id, parsed) ==
    LET mine == SelectSeq(parsed, LAMBDA p : MkMeetingId(p.date, p.room_id, p.meeting_time) = id)
    IN  [ id |-> id, date |-> mine[1].date, room_id |-> mine[1].room_id,
          room_label |-> extract_room_label(mine[1].room_id),
          meeting_time |-> mine[1].meeting_time,
          speaker_count |-> Cardinality({ mine[i].speaker : i \in 1..Len(mine) }),
          track_count |-> Len(mine) ]

\* A variant of the insertion that sorts by ascending meeting time.
RECURSIVE InsertMeetingAscending(_, _)
InsertMeetingAscending(sorted, m) ==
    IF sorted = << >> THEN << m >>
    ELSE IF compare_time_string(Head(sorted).meeting_time, m.meeting_time) > 0
         THEN << m >> \o sorted
         ELSE << Head(sorted) >> \o InsertMeetingAscending(Tail(sorted), m)

\* The stable sort_by(|a, b| compare_time_string(&b.meeting_time,
\* &a.meeting_time)), by insertion behind the elements that do not compare
\* greater.
RECURSIVE InsertMeeting(_, _)
InsertMeeting(sorted, m) ==
    IF sorted = << >> THEN << m >>
    ELSE IF compare_time_string(m.meeting_time, Head(sorted).meeting_time) > 0
         THEN << m >> \o sorted
         ELSE << Head(sorted) >> \o InsertMeeting(Tail(sorted), m)

RECURSIVE SortMeetingsFrom(_, _)
SortMeetingsFrom(sorted, rest) ==
    IF rest = << >> THEN sorted
    ELSE SortMeetingsFrom(InsertMeeting(sorted, Head(rest)), Tail(rest))

\* list_meetings on a store that answers: the lists that it can return, one
\* for each order in which the HashMap can hand out its entries.
list_meetings(bucket, date) ==
    LET keys == ListAll(bucket, date \o Slash, None)
        found == SelectSeq([ i \in 1..Len(keys) |-> parse_key(keys[i]) ], LAMBDA p : p.some)
        parsed == [ i \in 1..Len(found) |-> found[i].val ]
        ids == { MkMeetingId(parsed[i].date, parsed[i].room_id, parsed[i].meeting_time) :
                   i \in 1..Len(parsed) }
        orders == { o \in [ 1..Cardinality(ids) -> ids ] :
                      \A i, k \in DOMAIN o : i # k => o[i] # o[k] }
    IN  { SortMeetingsFrom(<< >>, [ i \in 1..Len(order) |-> Summary(order[i], parsed) ]) :
            order \in orders }

\* What list_objects_v2 with the delimiter "/" and no prefix lists: the keys
\* up to their first slash, each such common prefix once, and the keys
\* without a slash.
RollUp(bucket) ==
    LET entry(key) == IF FindChar(key, "/") = 0 THEN key ELSE SubSeq(key, 1, FindChar(key, "/"))
    IN  SelectSeq([ i \in 1..Len(bucket) |->
                      IF \E k \in 1..(i - 1) : entry(bucket[k]) = entry(bucket[i])
                      THEN << >> ELSE entry(bucket[i]) ],
                  LAMBDA e : e # << >>)

\* dates.sort(): by insertion, in the order of the bytes.
RECURSIVE SortDates(_, _)
SortDates(sorted, rest) ==
    IF rest = << >> THEN sorted
    ELSE LET before == SelectSeq(sorted, LAMBDA d : StrCmp(d, Head(rest)) <= 0)
             after == SelectSeq(sorted, LAMBDA d : StrCmp(d, Head(rest)) > 0)
         IN  SortDates(before \o << Head(rest) >> \o after, Tail(rest))

\* A variant of dedup that keeps what it is given.
KeepDuplicates(dates) == dates

\* dates.dedup(): of consecutive equal elements the first is kept.
Dedup(dates) ==
    LET kept == SelectSeq([ i \in 1..Len(dates) |-> i ],
                          LAMBDA i : i = 1 \/ dates[i] # dates[i - 1])
    IN  [ k \in 1..Len(kept) |-> dates[kept[k]] ]

\* list_dates on a store that answers.  A store that knows the delimiter
\* reports the common prefixes, page by page; for one that reports none, the
\* keys are listed again and split.
list_dates(bucket, delimited) ==
    LET listed == IF delimited THEN ListAll(RollUp(bucket), << >>, None) ELSE << >>
        prefixes == SelectSeq(listed, LAMBDA e : e # << >> /\ e[Len(e)] = "/")
        trimmed(value) ==
            SubSeq(value, 1, CHOOSE n \in 0..Len(value) :
                                /\ \A k \in (n + 1)..Len(value) : value[k] = "/"
                                /\ n = 0 \/ value[n] # "/")
        keys == ListAll(bucket, << >>, None)
        first(key) == IF FindChar(key, "/") = 0 THEN key ELSE SubSeq(key, 1, FindChar(key, "/") - 1)
        dates == IF prefixes # << >>
                 THEN SelectSeq([ i \in 1..Len(prefixes) |-> trimmed(prefixes[i]) ],
                                LAMBDA d : d # << >>)
                 ELSE SelectSeq([ i \in 1..Len(keys) |-> first(keys[i]) ], LAMBDA d : d # << >>)
    IN  SortDates(<< >>, Dedup(SortDates(<< >>, dates)))

(***************************************************************************)
(* The functions, each called by itself                                    *)
(***************************************************************************)

\* The most objects in a bucket.
MaxObjects == 3

\* The buckets: the keys that a set of positions selects of a pool of keys in
\* the order of the store's listing: meetings of one and of two tracks, one
\* speaker with two tracks, two notations of one time, a time that does not
\* parse, a room with a label, keys of four and of six parts, another date,
\* a key that begins with a slash and a key without one.
Buckets ==
    LET pool ==
          << << "/", "x" >>,
             MkKey(<< "d" >>, << "c" >>, << "1", "0", "ji", "0", "fun", "0", "byo" >>, << "a" >>,
                   MkFile(T100000, << "x" >>)),
             MkKey(<< "d" >>, << "l", "o", "c", "a", "l", "W", "o", "r", "l", "d", ".", "1", "-", "x" >>,
                   T100003, << "a" >>, MkFile(T100003, << "x" >>)),
             Join(<< << "d" >>, << "r" >>, T100000, T100000 \o OggSuffix >>, Slash),
             MkKey(<< "d" >>, << "r" >>, T100000, << "a" >>, MkFile(T100000, << "x" >>)),
             MkKey(<< "d" >>, << "r" >>, T100000, << "a" >>, MkFile(T100003, << "x" >>)),
             MkKey(<< "d" >>, << "r" >>, T100000, << "b" >>, MkFile(T100000, << "x" >>)),
             Join(<< << "d" >>, << "r" >>, T100000, << "b" >>, << "x" >>, T100000 \o OggSuffix >>,
                  Slash),
             MkKey(<< "d" >>, << "r" >>, T110000, << "a" >>, MkFile(T110000, << "x" >>)),
             MkKey(<< "d" >>, << "r" >>, TJp0905, << "a" >>, TJp0905 \o OggSuffix),
             MkKey(<< "d" >>, << "r" >>, TBad, << "a" >>, MkFile(TBad, << "x" >>)),
             MkKey(<< "g" >>, << "r" >>, T110000, << "a" >>, MkFile(T110000, << "x" >>)),
             << "x" >> >>
    IN  { SelectSeq([ i \in 1..Len(pool) |-> IF i \in chosen THEN pool[i] ELSE << >> ],
                    LAMBDA k : k # << >>) :
            chosen \in { c \in SUBSET (1..Len(pool)) : Cardinality(c) <= MaxObjects } }

\* Object keys: of five parts with and without '_' and ".ogg" in the file
\* name, with empty parts, of other numbers of parts.
Keys ==
    { MkKey(<< "d" >>, room, time, speaker, file) :
        room \in { << "r" >>, << >> }, time \in { T100000, TBad },
        speaker \in { << "a" >>, << "b", "_", "c" >> },
        file \in { MkFile(T100003, << "x" >>), MkFile(T100003, << "x", "_", "y" >>),
                   T100003 \o OggSuffix, T100003, OggSuffix, << "_" >> \o OggSuffix,
                   T100003 \o OggSuffix \o OggSuffix } }
    \cup { << >>, << "d" >>, Slash \o Slash \o Slash \o Slash, Slash \o Slash \o Slash,
           Join(<< << "d" >>, << "r" >>, T100000, T100000 \o OggSuffix >>, Slash),
           Join(<< << "d" >>, << "r" >>, T100000, << "a" >>, << "x" >>, T100000 \o OggSuffix >>, Slash),
           Join(<< << "d" >>, << "r" >>, T100000, << "a" >>, T100000 \o OggSuffix, << >> >>, Slash) }

\* Time strings: the two notations, one time in both, times at and beyond
\* the ends of the ranges, strings that are no time.
TimeStrings ==
    { T100000, T100003, T110000, TJp0905, TBad, << >>,
      << "1", "0", "ji", "0", "fun", "0", "byo" >>,
      << "9", "-", "0", "-", "5" >>,
      << "0", "0", "-", "0", "0", "-", "0", "0" >>,
      << "2", "3", "-", "5", "9", "-", "5", "9" >>,
      << "1", "0", "-", "0", "0", "-", "5", "9" >>,
      << "1", "0", "-", "0", "0", "-", "6", "0" >>,
      << "1", "0", "-", "0", "0", "-", "6", "1" >>,
      << "1", "0", "-", "6", "0", "-", "0", "0" >>,
      << "2", "4", "-", "0", "0", "-", "0", "0" >>,
      << "1", "0", "ji", "0", "fun", "6", "0", "byo" >>,
      << "2", "4", "ji", "0", "fun", "0", "byo" >>,
      << "1", "0", "-", "0", "0" >>,
      << "1", "0", "ji", "0", "fun" >> }

\* Segments of the transcript: starts below zero, on both sides of half a
\* second, at the last second of an hour and of a day and beyond a day.
TranscriptionSegments ==
    { [ start |-> start, speaker |-> << "a" >>, text |-> << "x", " ", "y" >> ] :
        start \in { 0 - 1500, 499, 500, 3599500, 86399499, 90061000 } }
    \cup { [ start |-> 1000, speaker |-> << >>, text |-> << "b" >> ] }

\* The fields of a JSON element that segment_from_value looks at.
Sources == { "start", "offsets", "timestamps", "t0", "text" }

\* A JSON element of which each of these fields is absent, is there with a
\* value the code can use, or is there with one it cannot use: a string for a
\* number, a "from" that is no number or no timestamp, a blank text.
Element(made) ==
    LET usable == [ start |-> JNum(2),
                    offsets |-> JObj([ from |-> JNum(2500) ]),
                    timestamps |-> JObj([ from |-> JStr(<< "0", ":", "0", "1", ":", "0", "2", ",", "5" >>) ]),
                    t0 |-> JNum(150),
                    text |-> JStr(<< "a" >>) ]
        unusable == [ start |-> JStr(<< "x" >>),
                      offsets |-> JObj([ from |-> JStr(<< "x" >>) ]),
                      timestamps |-> JObj([ from |-> JStr(<< "x" >>) ]),
                      t0 |-> JStr(<< "x" >>),
                      text |-> JStr(<< " " >>) ]
    IN  JObj([ key \in { k \in Sources : made[k] # "absent" } |->
                 IF made[key] = "usable" THEN usable[key] ELSE unusable[key] ])

\* A call of a function by itself, before it returns.
Call(fn, args) == [ fn |-> fn, args |-> args, returned |-> FALSE, ret |-> None ]

\* One of the functions is called, with arguments out of the sets above.
InitCalls ==
    /\ NoJobs
    /\ config = ConfigFile("missing", DefaultMinio)
    /\ call \in
          { Call("run_whisper_segments", [ json |-> json, txt |-> txt ]) :
              json \in { None } \cup { Some(contents) : contents \in JsonFiles },
              txt \in TextFiles }
          \cup { Call("parse_key", [ key |-> key ]) : key \in Keys }
          \cup { Call("parse_time_any", [ value |-> value ]) : value \in TimeStrings }
          \cup { Call("compare_time_string", [ a |-> a, b |-> b ]) :
                   a \in TimeStrings, b \in TimeStrings }
          \cup { Call("list_meetings", [ bucket |-> bucket, date |-> date, ok |-> ok ]) :
                   bucket \in Buckets, date \in { << "d" >>, << "g" >>, << "h" >> },
                   ok \in BOOLEAN }
          \cup { Call("list_dates", [ bucket |-> bucket, delimited |-> delimited, ok |-> ok ]) :
                   bucket \in Buckets, delimited \in BOOLEAN, ok \in BOOLEAN }
          \cup { Call("format_segments", [ segments |-> segments, include_timestamps |-> flags[1],
                                           include_speaker |-> flags[2] ]) :
                   segments \in SeqsUpTo(TranscriptionSegments, MaxSegments),
                   flags \in BOOLEAN \X BOOLEAN }
          \cup { Call("segment_from_value", [ value |-> Element(made), made |-> made ]) :
                   made \in [ Sources -> { "absent", "usable", "unusable" } ] }
          \cup { Call("append_log", [ map |-> map, job_id |-> job_id, line |-> line ]) :
                   map \in { << >>, << NewJobStatus >>,
                             << [ NewJobStatus EXCEPT !.log = << DoneLine >>, !.total = 2,
                                                       !.completed = 1 ],
                                MarkFailedIn(<< NewJobStatus >>, 1, "store error")[1] >> },
                   job_id \in 1..3,
                   line \in { << >>, << " " >>, DoneLine } }

\* run_whisper_segments returns what it made of the two files.
ParseOutputCall ==
    /\ call.fn = "run_whisper_segments"
    /\ ~call.returned
    /\ call' = [ call EXCEPT !.returned = TRUE,
                             !.ret = ParseOutput(call.args.json, call.args.txt) ]
    /\ UNCHANGED << jobs, task, procs, files, hist, response, config >>

ParseKeyCall ==
    /\ call.fn = "parse_key"
    /\ ~call.returned
    /\ call' = [ call EXCEPT !.returned = TRUE, !.ret = parse_key(call.args.key) ]
    /\ UNCHANGED << jobs, task, procs, files, hist, response, config >>

ParseTimeCall ==
    /\ call.fn = "parse_time_any"
    /\ ~call.returned
    /\ call' = [ call EXCEPT !.returned = TRUE, !.ret = parse_time_any(call.args.value) ]
    /\ UNCHANGED << jobs, task, procs, files, hist, response, config >>

CompareTimeCall ==
    /\ call.fn = "compare_time_string"
    /\ ~call.returned
    /\ call' = [ call EXCEPT !.returned = TRUE,
                             !.ret = compare_time_string(call.args.a, call.args.b) ]
    /\ UNCHANGED << jobs, task, procs, files, hist, response, config >>

\* list_meetings returns the error of the store, or the sorted list of what
\* the map holds.
ListMeetingsCall ==
    /\ call.fn = "list_meetings"
    /\ ~call.returned
    /\ \E list \in IF call.args.ok THEN list_meetings(call.args.bucket, call.args.date)
                   ELSE { << >> } :
          call' = [ call EXCEPT !.returned = TRUE,
                                !.ret = [ ok |-> call.args.ok, list |-> list ] ]
    /\ UNCHANGED << jobs, task, procs, files, hist, response, config >>

\* list_dates returns the error of the store, or the dates.
ListDatesCall ==
    /\ call.fn = "list_dates"
    /\ ~call.returned
    /\ call' = [ call EXCEPT
                   !.returned = TRUE,
                   !.ret = [ ok |-> call.args.ok,
                             list |-> IF call.args.ok
                                      THEN list_dates(call.args.bucket, call.args.delimited)
                                      ELSE << >> ] ]
    /\ UNCHANGED << jobs, task, procs, files, hist, response, config >>

\* append_log returns; what it has made of the map is kept.
AppendLogCall ==
    /\ call.fn = "append_log"
    /\ ~call.returned
    /\ call' = [ call EXCEPT
                   !.returned = TRUE,
                   !.ret = append_log(call.args.map, call.args.job_id, call.args.line) ]
    /\ UNCHANGED << jobs, task, procs, files, hist, response, config >>

FormatSegmentsCall ==
    /\ call.fn = "format_segments"
    /\ ~call.returned
    /\ call' = [ call EXCEPT
                   !.returned = TRUE,
                   !.ret = format_segments(call.args.segments, call.args.include_timestamps,
                                           call.args.include_speaker) ]
    /\ UNCHANGED << jobs, task, procs, files, hist, response, config >>

SegmentFromValueCall ==
    /\ call.fn = "segment_from_value"
    /\ ~call.returned
    /\ call' = [ call EXCEPT !.returned = TRUE, !.ret = segment_from_value(call.args.value) ]
    /\ UNCHANGED << jobs, task, procs, files, hist, response, config >>

NextCalls ==
    \/ ParseOutputCall
    \/ ParseKeyCall
    \/ ParseTimeCall
    \/ CompareTimeCall
    \/ ListMeetingsCall
    \/ ListDatesCall
    \/ AppendLogCall
    \/ FormatSegmentsCall
    \/ SegmentFromValueCall

SpecCalls == InitCalls /\ [][NextCalls]_vars

Returned(fn) == call.fn = fn /\ call.returned

\* C13: run_whisper_segments returns a list of segments that is not empty, or
\* fails: it never returns the empty list.
C13_NeverEmptySuccess ==
    Returned("run_whisper_segments") /\ call.ret.ok => call.ret.segments # << >>

\* One of the attempts on the JSON contents finds at least one segment.
YieldsSegments(json) ==
    LET contents == normalize_json_contents(json)
    IN  \E found \in { DeserializeWhisperJson(contents.whole), DeserializeSegments(contents.whole),
                       parse_json_lines(contents), extract_segments_from_value(contents.whole) } :
            found.some /\ found.val # << >>

\* The lines of the text file that are not blank, trimmed.
NonEmptyLines(txt) ==
    IF txt.some
    THEN SelectSeq([ i \in 1..Len(txt.val) |-> Trim(txt.val[i]) ], LAMBDA line : line # << >>)
    ELSE << >>

\* C14: when no attempt on the JSON contents finds a segment, whatever the
\* contents are, and the text file has a line that is not blank, the parser
\* returns the one segment at 0.0 of these lines joined by single spaces; it
\* fails only when the text file is missing or has no such line.
C14_TextFallback ==
    Returned("run_whisper_segments") /\ call.args.json.some =>
        LET lines == NonEmptyLines(call.args.txt)
        IN  /\ ~YieldsSegments(call.args.json.val) /\ lines # << >> =>
                  call.ret = Ok(<< Segment(0, Join(lines, << " " >>)) >>)
            /\ ~call.ret.ok => lines = << >>

\* C15: the same list of utterances, written in each of the five shapes,
\* gives the same list of segments.
C15_SameInEveryShape ==
    Returned("run_whisper_segments") =>
        \A data \in SeqsUpTo(Pairs, MaxUtterances), shape \in Shapes, spread \in BOOLEAN :
            call.args.json = Some(Encode(shape, data, spread)) =>
                \A other \in Shapes :
                    call.ret = ParseOutput(Some(Encode(other, data, spread)), call.args.txt)

\* The shapes agree on the lists that are not empty and hold no blank text.
ShapesAgreeOnSpokenText ==
    Returned("run_whisper_segments") =>
        \A data \in SeqsUpTo(Pairs, MaxUtterances), shape \in Shapes, spread \in BOOLEAN :
            /\ call.args.json = Some(Encode(shape, data, spread))
            /\ data # << >>
            /\ \A i \in 1..Len(data) : Trim(data[i].text) # << >>
            => call.ret = Ok([ i \in 1..Len(data) |-> Segment(data[i].start * 1000, data[i].text) ])

\* The positions of the slashes of a key.
SlashesOf(key) == { i \in 1..Len(key) : key[i] = "/" }

\* The part of a key in front of its n-th slash, behind the slash before.
PartOf(key, n) ==
    LET upto == CHOOSE i \in SlashesOf(key) \cup { Len(key) + 1 } :
                    Cardinality({ k \in SlashesOf(key) : k < i }) = n - 1
        before == { k \in SlashesOf(key) : k < upto }
        from == IF before = { } THEN 0 ELSE CHOOSE k \in before : \A m \in before : m <= k
    IN  SubSeq(key, from + 1, upto - 1)

\* The file name without ".ogg", up to its first '_'.
TrackTimeOfFile(file) ==
    LET stem == IF Len(file) >= 4 /\ SubSeq(file, Len(file) - 3, Len(file)) = OggSuffix
                THEN SubSeq(file, 1, Len(file) - 4) ELSE file
        marks == { i \in 1..Len(stem) : stem[i] = "_" }
    IN  IF marks = { } THEN stem
        ELSE SubSeq(stem, 1, (CHOOSE i \in marks : \A k \in marks : i <= k) - 1)

\* C16: parse_key returns a result exactly for the keys of five parts
\* between slashes; the result holds the first four parts and, as the track
\* time, the file name without ".ogg" up to its first '_'; a key built of
\* date/room/time/speaker/trackTime_suffix.ogg gives back what it was built of.
C16_ParseKeyRoundTrip ==
    Returned("parse_key") =>
        LET key == call.args.key
        IN  /\ call.ret.some <=> Cardinality(SlashesOf(key)) = 4
            /\ call.ret.some =>
                  call.ret.val = [ date |-> PartOf(key, 1), room_id |-> PartOf(key, 2),
                                   meeting_time |-> PartOf(key, 3), speaker |-> PartOf(key, 4),
                                   track_time |-> TrackTimeOfFile(PartOf(key, 5)) ]
            /\ \A room \in { << "r" >>, << >> }, time \in { T100000, TBad },
                  speaker \in { << "a" >>, << "b", "_", "c" >> },
                  suffix \in { << "x" >>, << "x", "_", "y" >> } :
                  key = MkKey(<< "d" >>, room, time, speaker, MkFile(T100003, suffix)) =>
                      call.ret = Some([ date |-> << "d" >>, room_id |-> room,
                                        meeting_time |-> time, speaker |-> speaker,
                                        track_time |-> T100003 ])

\* parse_key has returned the parts of a key whose file name has two '_'.
C16_Witness ==
    /\ Returned("parse_key")
    /\ call.args.key = MkKey(<< "d" >>, << "r" >>, TBad, << "b", "_", "c" >>,
                             MkFile(T100003, << "x", "_", "y" >>))
    /\ call.ret.some
    /\ call.ret.val.track_time = T100003

\* A time string parses.
Parses(value) == parse_time_any(value).some

\* C17: compare_time_string compares two strings that parse by their times,
\* whatever their notations; puts a string that parses before one that does
\* not; compares two strings that do not parse as raw strings; and is a
\* total preorder: the two directions give opposite signs, and it is
\* transitive over the time strings.
C17_TotalPreorder ==
    Returned("compare_time_string") =>
        LET a == call.args.a
            b == call.args.b
        IN  /\ call.ret \in { -1, 0, 1 }
            /\ Parses(a) /\ Parses(b) =>
                  call.ret = TimeCmp(parse_time_any(a).val, parse_time_any(b).val)
            /\ Parses(a) /\ ~Parses(b) => call.ret = -1
            /\ ~Parses(a) /\ Parses(b) => call.ret = 1
            /\ ~Parses(a) /\ ~Parses(b) => call.ret = StrCmp(a, b)
            /\ call.ret = 0 - compare_time_string(b, a)
            /\ \A c \in TimeStrings :
                  call.ret <= 0 /\ compare_time_string(b, c) <= 0 =>
                      compare_time_string(a, c) <= 0

\* "bad" has been compared with a time: the time comes first.
C17_Witness ==
    /\ Returned("compare_time_string")
    /\ call.args.a = TBad
    /\ call.args.b = TJp0905
    /\ call.ret = 1

\* The three numbers of a time string in one of the two notations.
FieldsOf(value) ==
    LET parts == IF HasKanji(value)
                 THEN IF Len(Split(value, "ji")) = 2 /\ Len(Split(Split(value, "ji")[2], "fun")) = 2
                         /\ StripSuffix(Split(Split(value, "ji")[2], "fun")[2], << "byo" >>).some
                      THEN << Split(value, "ji")[1], Split(Split(value, "ji")[2], "fun")[1],
                              StripSuffix(Split(Split(value, "ji")[2], "fun")[2], << "byo" >>).val >>
                      ELSE << >>
                 ELSE Split(value, "-")
    IN  IF Len(parts) = 3 /\ \A i \in 1..3 : ParseF64(parts[i]).some
        THEN Some([ i \in 1..3 |-> ParseF64(parts[i]).val ])
        ELSE None

\* C18: parse_time_any returns a time only for a string in one of the two
\* notations with the hour in 0..23 and the minute and the second in 0..59.
C18_OnlyTimesInRange ==
    Returned("parse_time_any") /\ call.ret.some =>
        /\ FieldsOf(call.args.value).some
        /\ FieldsOf(call.args.value).val[1] <= 23
        /\ FieldsOf(call.args.value).val[2] <= 59
        /\ FieldsOf(call.args.value).val[3] <= 59

\* The strings with numbers in these ranges do parse, to their time.
TimesInRangeParse ==
    Returned("parse_time_any") =>
        LET fields == FieldsOf(call.args.value)
        IN  fields.some /\ fields.val[1] <= 23 /\ fields.val[2] <= 59 /\ fields.val[3] <= 59 =>
                call.ret = Some(NaiveTime(fields.val[1] * 3600 + fields.val[2] * 60 + fields.val[3], 0))

\* C19: in the list that list_meetings returns, a meeting is in front of
\* every meeting of an earlier time, where both times parse.
C19_LaterMeetingsFirst ==
    Returned("list_meetings") /\ call.ret.ok =>
        \A i, k \in 1..Len(call.ret.list) :
            i < k /\ Parses(call.ret.list[i].meeting_time) /\ Parses(call.ret.list[k].meeting_time) =>
                TimeCmp(parse_time_any(call.ret.list[i].meeting_time).val,
                        parse_time_any(call.ret.list[k].meeting_time).val) >= 0

\* A list of three meetings has been returned: times in both notations, of
\* which the later one is in front.
C19_Witness ==
    /\ Returned("list_meetings")
    /\ call.ret.ok
    /\ Len(call.ret.list) = 3
    /\ \E i, k \in 1..3 :
          /\ i < k
          /\ call.ret.list[i].meeting_time = T100003
          /\ call.ret.list[k].meeting_time = TJp0905

\* The positions in a bucket of the keys of five parts under a date.
FiveParts(bucket, date) ==
    { i \in 1..Len(bucket) :
        StartsWith(bucket[i], date \o Slash) /\ Cardinality(SlashesOf(bucket[i])) = 4 }

\* The meeting id of a key: its first three parts.
IdOfKey(key) == Join(<< PartOf(key, 1), PartOf(key, 2), PartOf(key, 3) >>, Slash)

\* C20: list_meetings returns one summary for each meeting id among the keys
\* of five parts under the date, with the id made of date, room and time, the
\* number of the distinct speakers and the number of the keys of the meeting;
\* keys of other numbers of parts count for nothing; no key gives the empty
\* list and no error.
C20_OneSummaryPerMeeting ==
    Returned("list_meetings") /\ call.args.ok =>
        LET list == call.ret.list
            bucket == call.args.bucket
            five == FiveParts(bucket, call.args.date)
        IN  /\ call.ret.ok
            /\ { list[i].id : i \in 1..Len(list) } = { IdOfKey(bucket[k]) : k \in five }
            /\ \A i, k \in 1..Len(list) : i # k => list[i].id # list[k].id
            /\ \A i \in 1..Len(list) :
                  LET mine == { k \in five : IdOfKey(bucket[k]) = list[i].id }
                  IN  /\ list[i].id = MkMeetingId(list[i].date, list[i].room_id,
                                                  list[i].meeting_time)
                      /\ list[i].track_count = Cardinality(mine)
                      /\ list[i].speaker_count = Cardinality({ PartOf(bucket[k], 4) : k \in mine })
                      /\ list[i].speaker_count <= list[i].track_count

\* One meeting has been listed out of two keys of one speaker and a key of
\* another number of parts.
C20_Witness ==
    /\ Returned("list_meetings")
    /\ call.ret.ok
    /\ Len(call.ret.list) = 1
    /\ call.ret.list[1].track_count = 2
    /\ call.ret.list[1].speaker_count = 1
    /\ Len(call.args.bucket) = 3

\* The dates of a bucket: what stands in front of the first slash of a key.
DatesOf(bucket) ==
    { Split(bucket[i], "/")[1] :
        i \in { n \in 1..Len(bucket) : SlashesOf(bucket[n]) # { } /\ bucket[n][1] # "/" } }

\* C21: list_dates returns its dates in ascending order without duplicates;
\* from a store that reports no common prefixes they are the non-empty first
\* segments of all keys; in both modes every date with an object is returned.
C21_DatesAscendingAndComplete ==
    Returned("list_dates") /\ call.args.ok =>
        LET list == call.ret.list
            bucket == call.args.bucket
            reported == call.args.delimited /\ \E i \in 1..Len(bucket) : FindChar(bucket[i], "/") > 0
        IN  /\ call.ret.ok
            /\ \A i \in 1..(Len(list) - 1) : StrCmp(list[i], list[i + 1]) < 0
            /\ ~reported =>
                  { list[i] : i \in 1..Len(list) } =
                      { Split(bucket[i], "/")[1] : i \in 1..Len(bucket) } \ { << >> }
            /\ DatesOf(bucket) \subseteq { list[i] : i \in 1..Len(list) }
            /\ reported => { list[i] : i \in 1..Len(list) } = DatesOf(bucket)

\* The dates of a bucket of two dates and three objects have been returned by
\* a store that reports common prefixes.
C21_Witness ==
    /\ Returned("list_dates")
    /\ call.ret.ok
    /\ call.args.delimited
    /\ Len(call.args.bucket) = 3
    /\ call.ret.list = << << "d" >>, << "g" >> >>

\* C22: a start_transcribe that passes the configuration checks inserts one
\* entry under an id that was not in the registry, running, with zero counts,
\* no output path, no error and an empty log, changes no other entry and
\* returns before the task of the job has taken a step; every other step
\* changes at most the entry of the one job whose task, child or draining
\* task takes it.
C22_StartInsertsOneEntry ==
    [][ /\ response'.op = "start_transcribe" /\ response'.ok =>
              /\ response'.id \notin DOMAIN jobs
              /\ DOMAIN jobs' = DOMAIN jobs \cup { response'.id }
              /\ jobs'[response'.id] =
                    [ state |-> "running", completed |-> 0, total |-> 0,
                      output_path |-> None, error |-> None, log |-> << >> ]
              /\ task'[response'.id].pc = "start"
              /\ hist'[response'.id] = << >>
              /\ \A k \in DOMAIN jobs : jobs'[k] = jobs[k]
        /\ response'.op # "start_transcribe" =>
              /\ DOMAIN jobs' = DOMAIN jobs
              /\ \A j \in DOMAIN jobs :
                    jobs'[j] # jobs[j] =>
                        /\ task'[j] # task[j] \/ procs'[j] # procs[j]
                        /\ \A k \in DOMAIN jobs \ { j } :
                              jobs'[k] = jobs[k] /\ task'[k] = task[k] /\ procs'[k] = procs[k]
      ]_vars

\* A second job of the same meeting has just been started, under another id,
\* beside a job that has logged and has failed.
C22_Witness ==
    /\ response.op = "start_transcribe"
    /\ response.ok
    /\ response.id = 2
    /\ DOMAIN jobs = { 1, 2 }
    /\ task[1].meeting_id = task[2].meeting_id
    /\ jobs[1].state = "failed"
    /\ jobs[1].log # << >>
    /\ jobs[2].state = "running"

\* C23: append_log leaves the registry as it is when the job id is unknown;
\* else it puts the line, with its newline, at the end of the log of that job
\* and changes no other field of the job and no other job.
C23_AppendLogFrame ==
    Returned("append_log") =>
        LET map == call.args.map
            job_id == call.args.job_id
        IN  IF job_id \notin DOMAIN map THEN call.ret = map
            ELSE /\ DOMAIN call.ret = DOMAIN map
                 /\ call.ret[job_id].log = map[job_id].log \o << call.args.line >>
                 /\ \A field \in { "state", "completed", "total", "output_path", "error" } :
                       call.ret[job_id][field] = map[job_id][field]
                 /\ \A k \in DOMAIN map \ { job_id } : call.ret[k] = map[k]

\* A line has been appended to the log of the first of two jobs, which held
\* a line.
C23_Witness ==
    /\ Returned("append_log")
    /\ Len(call.args.map) = 2
    /\ call.args.job_id = 1
    /\ call.ret[1].log = << DoneLine, DoneLine >>

\* A history without the "parsed" events of the tracks whose time does not
\* parse.
WithoutUnparsedTracks(h) ==
    SelectSeq(h, LAMBDA e : e.op = "parsed" => Parses(TrackTimeOfKey(KeyOfTrack(h, e.track))))

\* C24: a track whose time does not parse is skipped: the segments of a job
\* are those of its tracks whose time parses and no others, and the job can
\* still end in done.
C24_UnparsedTrackSkipped ==
    \A j \in JobIds :
        /\ Len(task[j].all_segments) = Len(AppendedFrom(WithoutUnparsedTracks(hist[j]), 1))
        /\ \A i \in 1..Len(task[j].all_segments) :
              \E k \in 1..Len(task[j].tracks) :
                  /\ task[j].tracks[k].speaker = task[j].all_segments[i].speaker
                  /\ Parses(task[j].tracks[k].track_time)

\* The job of a meeting with a track whose time does not parse goes on with
\* the other tracks and ends in done.
UnparsedTrackIsNotFatal ==
    \A j \in JobIds :
        (task[j].err # "" /\ \E i \in 1..Len(task[j].tracks) : ~Parses(task[j].tracks[i].track_time)) =>
            task[j].err \in { "store error", "Failed to create output dir", "Failed to download",
                              "Failed to execute ffmpeg", "Failed to execute whisper",
                              "wait failed", "ffmpeg failed", "Whisper command failed",
                              "Failed to write output" } \cup ParseErrors

\* The whole second nearest to a start in thousandths, and zero for a start
\* below zero.
NearestSecond(start, n) ==
    \/ n = 0 /\ start < 500
    \/ n > 0 /\ n * 1000 - 500 <= start /\ start < n * 1000 + 500

\* C25: format_segments gives one line for each segment, in their order; with
\* timestamps a line begins with HH:MM:SS of the start, to the nearest
\* whole second and not below zero, and a space; with speakers the name of the
\* speaker and a full-width colon stand in front of the text; with neither
\* the line is the text.
C25_LineShapes ==
    Returned("format_segments") =>
        LET segments == call.args.segments
        IN  /\ Len(call.ret) = Len(segments)
            /\ \A i \in 1..Len(segments) :
                  LET line == call.ret[i]
                      body == IF call.args.include_speaker
                              THEN segments[i].speaker \o << "fwcolon" >> \o segments[i].text
                              ELSE segments[i].text
                  IN  IF ~call.args.include_timestamps THEN line = body
                      ELSE /\ Len(line) = 9 + Len(body)
                           /\ \A k \in { 1, 2, 4, 5, 7, 8 } : IsDigit(line[k])
                           /\ line[3] = ":" /\ line[6] = ":" /\ line[9] = " "
                           /\ DigitVal(line[4]) < 6 /\ DigitVal(line[7]) < 6
                           /\ NearestSecond(segments[i].start,
                                 (DigitVal(line[1]) * 10 + DigitVal(line[2])) * 3600
                                 + (DigitVal(line[4]) * 10 + DigitVal(line[5])) * 60
                                 + DigitVal(line[7]) * 10 + DigitVal(line[8]))
                           /\ SubSeq(line, 10, Len(line)) = body

\* Two segments have been rendered with timestamps and speakers: one that
\* starts below zero and one half a second before the end of an hour.
C25_Witness ==
    /\ Returned("format_segments")
    /\ call.args.include_timestamps
    /\ call.args.include_speaker
    /\ Len(call.ret) = 2
    /\ call.args.segments[1].start < 0
    /\ SubSeq(call.ret[1], 1, 8) = << "0", "0", ":", "0", "0", ":", "0", "0" >>
    /\ SubSeq(call.ret[2], 1, 8) = << "0", "1", ":", "0", "0", ":", "0", "0" >>

\* The errors of a child that has exited with a status that is not zero.
ExitErrors == { "ffmpeg failed", "Whisper command failed" }

\* C26: when ffmpeg or the recognizer exits with a nonzero status on the
\* k-th track, the job fails with completed = k - 1: nothing of a later track
\* is downloaded, converted or recognized, the track itself is not parsed,
\* and no output file is written.
C26_NonzeroExitFailsJob ==
    \A j \in JobIds :
        LET h == hist[j]
            k == task[j].index + 1
        IN  /\ (task[j].status # 0 /\ task[j].pc \notin { "join_ffmpeg", "join_whisper" }) =>
                  task[j].err \in ExitErrors
            /\ task[j].err \in ExitErrors =>
                  /\ task[j].status # 0
                  /\ task[j].pc \in { "err", "finished" }
                  /\ jobs[j].completed = k - 1
                  /\ jobs[j].state = IF task[j].pc = "finished" THEN "failed" ELSE "running"
                  /\ task[j].pc = "finished" => jobs[j].error = Some(task[j].err)
                  /\ \A i \in 1..Len(h) :
                        h[i].op \in StartOps \cup { "converted", "recognized", "parsed" } =>
                            h[i].track <= k - 1
                  /\ h[Len(h)] = Event(IF task[j].err = "ffmpeg failed" THEN "spawn_ffmpeg"
                                       ELSE "spawn_whisper", k - 1, << >>)
                  /\ EventsOf(h, "write") = { }
                  /\ task[j].output_path \notin DOMAIN files

\* The recognizer has exited with a nonzero status on the second of two
\* tracks, and the job has failed with one track completed.
C26_Witness ==
    \E j \in JobIds :
        /\ jobs[j].state = "failed"
        /\ jobs[j].error = Some("Whisper command failed")
        /\ jobs[j].total = 2
        /\ jobs[j].completed = 1
        /\ files = << >>

\* The errors that end a job before the discovery of its tracks is over.
EarlyErrors ==
    { "Whisper binary not found", "Whisper model not found", "ffmpeg not found", "store error" }

\* The number of the objects under the prefix of a meeting, of any number of
\* parts.
ObjectsUnder(meeting_id) ==
    Cardinality({ k \in 1..Len(Bucket) : StartsWith(Bucket[k], meeting_id \o Slash) })

\* C27: total is written once, in the step after the listing has asked for
\* every page, to the number of the objects under the prefix of the meeting
\* whose key has five parts, and does not change after; a job that finds no
\* track fails with "No tracks found", total 0 and completed 0, and downloads
\* nothing.
C27_TotalSetOnceAfterDiscovery ==
    /\ [](\A j \in JobIds :
            LET h == hist[j]
                n == ObjectsUnder(task[j].meeting_id)
                discovering == \/ task[j].pc \in { "start", "list", "total" }
                               \/ task[j].err \in EarlyErrors
            IN  /\ discovering => jobs[j].total = 0
                /\ ~discovering =>
                      /\ jobs[j].total = Cardinality(TrackKeysOf(task[j].meeting_id))
                      /\ Cardinality(EventsOf(h, "list")) =
                            IF n = 0 THEN 1 ELSE (n + PageSize - 1) \div PageSize
                /\ (~discovering /\ TrackKeysOf(task[j].meeting_id) = { }) =>
                      /\ task[j].err = "No tracks found for meeting"
                      /\ task[j].pc \in { "err", "finished" }
                      /\ jobs[j].total = 0 /\ jobs[j].completed = 0
                      /\ EventsOf(h, "download") = { }
                      /\ task[j].pc = "finished" =>
                            /\ jobs[j].state = "failed"
                            /\ jobs[j].error = Some("No tracks found for meeting"))
    /\ [][ \A j \in DOMAIN jobs :
              jobs'[j].total # jobs[j].total => task[j].pc = "total" /\ task'[j].pc # "total"
       ]_vars

\* A job has its total of two tracks out of three objects listed on two
\* pages, and is done.
C27_Witness ==
    \E j \in JobIds :
        /\ jobs[j].total = 2
        /\ ObjectsUnder(task[j].meeting_id) = 3
        /\ Cardinality(EventsOf(hist[j], "list")) = 2
        /\ jobs[j].state = "done"

\* C28: ffmpeg is run for a track exactly when the object of the track is not
\* in the wav format: a wav object goes to the recognizer without a
\* conversion, every other track is converted before it is recognized.
C28_ConvertsUnlessWav ==
    \A j \in JobIds :
        LET h == hist[j]
        IN  /\ \A f \in EventsOf(h, "spawn_ffmpeg") : ~is_wav(KeyOfTrack(h, h[f].track))
            /\ \A w \in EventsOf(h, "spawn_whisper") :
                  ~is_wav(KeyOfTrack(h, h[w].track)) =>
                      \E c \in 1..(w - 1) : h[c].op = "converted" /\ h[c].track = h[w].track

\* Every track that reaches the recognizer has been converted, the wav
\* object too.
EveryTrackIsConverted ==
    \A j \in JobIds :
        \A w \in EventsOf(hist[j], "spawn_whisper") :
            \E c \in 1..(w - 1) :
                hist[j][c].op = "converted" /\ hist[j][c].track = hist[j][w].track

\* The number of pages that hold n objects.
PagesOf(n) == IF n = 0 THEN 1 ELSE (n + PageSize - 1) \div PageSize

\* C29: a listing loop asks for the pages of its prefix one after the other,
\* each once: the first without a token, each later one with the token of the
\* page before; it asks for no more pages than the objects fill, goes on
\* while a page is truncated and has a token, and has then seen every
\* object under the prefix once.
C29_ListingSeesEveryObjectOnce ==
    /\ \A j \in JobIds :
          LET h == hist[j]
              lists == EventsOf(h, "list")
              pages == PagesOf(ObjectsUnder(task[j].meeting_id))
              keys == TrackKeysOf(task[j].meeting_id)
          IN  /\ \A i \in lists :
                    h[i].data = IF \A k \in lists : i <= k THEN None
                                ELSE Some(Cardinality({ k \in lists : k < i }) * PageSize)
              /\ Cardinality(lists) <= pages
              /\ task[j].pc = "list" => Cardinality(lists) < pages
              /\ (task[j].pc \notin { "start", "list" } /\ task[j].err \notin EarlyErrors) =>
                    /\ Cardinality(lists) = pages
                    /\ Len(task[j].tracks) = Cardinality(keys)
                    /\ { task[j].tracks[i].key : i \in 1..Len(task[j].tracks) } = keys
    /\ \A prefix \in { meeting_id \o Slash : meeting_id \in Meetings } \cup { << "d", "/" >> } :
          ListAll(Bucket, prefix, None) = SelectSeq(Bucket, LAMBDA key : StartsWith(key, prefix))

\* The second page of a meeting has been asked for with the token of the
\* first, and the two tracks of its three objects are there.
C29_Witness ==
    \E j \in JobIds :
        /\ Cardinality(EventsOf(hist[j], "list")) = 2
        /\ \E i \in EventsOf(hist[j], "list") : hist[j][i].data = Some(PageSize)
        /\ task[j].pc = "total"
        /\ Len(task[j].tracks) = 2

\* What each source of the start gives when the code can use it, in
\* thousandths of a second: 2 s, 2500 ms, 0:01:02,5 and 150 hundredths.
StartBy == [ start |-> 2000, offsets |-> 2500, timestamps |-> 62005, t0 |-> 1500 ]

\* C30: the start of the segment made of a JSON element is that of the first
\* of "start", offsets.from, timestamps.from and "t0", in this order, that
\* is there with a value that can be used, and zero if there is none; an
\* element with an empty or blank text gives no segment.
C30_StartByPriority ==
    Returned("segment_from_value") =>
        LET made == call.args.made
        IN  /\ call.ret.some <=> made["text"] = "usable"
            /\ call.ret.some =>
                  call.ret.val.start =
                      IF made["start"] = "usable" THEN StartBy["start"]
                      ELSE IF made["offsets"] = "usable" THEN StartBy["offsets"]
                      ELSE IF made["timestamps"] = "usable" THEN StartBy["timestamps"]
                      ELSE IF made["t0"] = "usable" THEN StartBy["t0"]
                      ELSE 0

\* The start is that of the first source that is there, taken as zero when
\* its value cannot be used: an "offsets" or a "timestamps" of any value
\* closes the search, a "start" or a "t0" only if it is a number.
StartOfFirstSourcePresent ==
    Returned("segment_from_value") =>
        LET made == call.args.made
        IN  /\ call.ret.some <=> made["text"] = "usable"
            /\ call.ret.some =>
                  call.ret.val.start =
                      IF made["start"] = "usable" THEN StartBy["start"]
                      ELSE IF made["offsets"] # "absent"
                         THEN IF made["offsets"] = "usable" THEN StartBy["offsets"] ELSE 0
                      ELSE IF made["timestamps"] # "absent"
                         THEN IF made["timestamps"] = "usable" THEN StartBy["timestamps"] ELSE 0
                      ELSE IF made["t0"] = "usable" THEN StartBy["t0"]
                      ELSE 0
\* The stored configuration is missing or incomplete: there is no file, or
\* the url, the access key, the secret key or the bucket of the stored
\* configuration is empty.
MissingOrIncomplete(file) ==
    \/ file.kind = "missing"
    \/ /\ file.kind = "json"
       /\ \/ file.minio.url = << >>
          \/ file.minio.access_key = << >>
          \/ file.minio.secret_key = << >>
          \/ file.minio.bucket = << >>

\* C31: a start_transcribe that runs while the stored configuration is
\* missing or incomplete returns the configuration error and no job id; the
\* registry, the background tasks, the child processes and the files are what
\* they were before the call.
C31_BadConfigStartsNothing ==
    [][ (response'.op = "start_transcribe" /\ MissingOrIncomplete(config))
        => /\ ~response'.ok
           /\ response'.error = "MinIO config is incomplete"
           /\ response'.id \notin DOMAIN jobs'
           /\ UNCHANGED << jobs, task, procs, files, hist >> ]_vars

\* A job runs, the configuration was then saved without its bucket, and the
\* next start_transcribe has failed: the registry holds the one job only.
C31_Witness ==
    /\ response.op = "start_transcribe"
    /\ ~response.ok
    /\ config = ConfigFile("json", [ CompleteMinio EXCEPT !.bucket = << >> ])
    /\ DOMAIN jobs = { 1 }
    /\ DOMAIN task = { 1 }

\* C32: once the state of a job is done or failed, its JobStatus is never
\* written again: no step changes a field of it, the log included.
C32_TerminalEntryIsFrozen ==
    [][ \A j \in DOMAIN jobs :
          jobs[j].state \in Terminal => jobs'[j] = jobs[j] ]_vars

\* What holds of a terminal entry: only its log can still grow, and only for
\* a job that failed by the error of child.wait(), whose child and draining
\* tasks are left behind.
TerminalEntryChangesOnlyAfterWaitError ==
    [][ \A j \in DOMAIN jobs :
          jobs[j].state \in Terminal =>
            /\ [ jobs'[j] EXCEPT !.log = jobs[j].log ] = jobs[j]
            /\ jobs'[j].log # jobs[j].log =>
                 /\ jobs[j].error = Some("wait failed")
                 /\ procs'[j] # procs[j] ]_vars

====
